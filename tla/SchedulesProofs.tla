--------------------------- MODULE SchedulesProofs ---------------------------
(***************************************************************************)
(* Proofs about Schedules, for every set of schedules, targets, policies,  *)
(* requests and faults and every interval: a slot yields one job, missed   *)
(* slots one run, and within one process a run and the schedules in memory *)
(* refer to registered targets only.  All three rest on TypeInv, which     *)
(* says what the clones of rows are that handlers and the scheduler carry  *)
(* from their step in memory to their step in the tables.  The second part *)
(* is about JobEvents, the events of the jobs that schedules and requests  *)
(* create, for every number of viewers, retries, views and losses.         *)
(***************************************************************************)
EXTENDS Schedules, JobEvents, FiniteSetTheorems, TLAPS

Clones == [id : Ids, row : Row]
IsTable(ss) == DOMAIN ss \subseteq Ids /\ \A s \in DOMAIN ss : ss[s] \in Row
ArePolicies(ps) == DOMAIN ps \subseteq Policies /\ \A p \in DOMAIN ps : ps[p] \subseteq Targets

ScalarsTyped ==
  /\ clock \in 0..MaxTime /\ faults \in 0..MaxFaults
  /\ targets \subseteq Targets /\ dbTargets \subseteq Targets
  /\ managed \subseteq targets \cup dbTargets
  /\ keys \subseteq Targets \X (Ids \X Int)
  /\ lock \in {"free", "scheduler"} \cup Clients
TablesTyped ==
  /\ IsTable(schedules) /\ IsTable(dbSchedules)
  /\ ArePolicies(policies) /\ ArePolicies(dbPolicies)
  /\ jobs \subseteq Jobs

(* A handler that has rows to write holds clones of rows. *)
RequestTyped(r) ==
  \/ r = Idle
  \/ r.pc = "write" /\ r.rows \in Seq(Clones) /\ r.rows # << >>
  \/ r.pc \in {"lock", "deleted"} /\ r.target \in Targets
  \/ r.pc \in {"unused", "forget"}
RequestsTyped == DOMAIN req = Clients /\ \A c \in Clients : RequestTyped(req[c])

(* The scheduler's local variables at each place of its loop. *)
RunTyped ==
  /\ sch.pc \in {"idle", "next", "run", "save", "gate", "backup", "persist"}
  /\ sch.pc = "idle" => sch = NoRun
  /\ sch.pc = "next" => sch = Loop(sch.now, sch.due)
  /\ sch.pc # "idle" => sch.now \in 0..clock /\ IsTable(sch.due)
  /\ sch.pc \in {"run", "save", "gate", "backup", "persist"} => sch.id \in Ids /\ sch.row \in Row
  /\ sch.pc \in {"run", "save", "gate", "backup"} =>
       /\ sch = [pc |-> sch.pc, now |-> sch.now, due |-> sch.due, id |-> sch.id, row |-> sch.row,
                 todo |-> sch.todo, target |-> sch.target]
       /\ sch.todo \subseteq sch.row.targets
  /\ sch.pc = "save" => sch.target \in Targets
RansTyped == DOMAIN ran = Ids /\ \A s \in Ids : ran[s] \subseteq 0..clock

TypeInv == ScalarsTyped /\ TablesTyped /\ RequestsTyped /\ RunTyped /\ RansTyped

----------------------------------------------------------------------------
(* What the operators return *)

LEMMA WithRow ==
  ASSUME NEW ss, IsTable(ss), NEW id \in Ids, NEW row \in Row
  PROVE  IsTable(With(ss, id, row))
BY DEF IsTable, With

LEMMA WithoutRow ==
  ASSUME NEW ss, IsTable(ss), NEW id
  PROVE  IsTable(Without(ss, id))
BY DEF IsTable, Without

LEMMA PrunedRows ==
  ASSUME NEW ss, IsTable(ss), NEW ps, NEW t
  PROVE  /\ IsTable(PrunedSchedules(ss, ps, t))
         /\ \A s \in DOMAIN PrunedSchedules(ss, ps, t) :
              /\ s \in DOMAIN ss
              /\ PrunedSchedules(ss, ps, t)[s].next = ss[s].next
              /\ PrunedSchedules(ss, ps, t)[s].targets = ss[s].targets \ {t}
BY DEF IsTable, PrunedSchedules, Row

LEMMA PrunedScopes ==
  ASSUME NEW ps, ArePolicies(ps), NEW t
  PROVE  ArePolicies(PrunedPolicies(ps, t)) /\ ArePolicies(Without(ps, t))
BY DEF ArePolicies, PrunedPolicies, Without

(* A slot after the missed ones is the first in the future: the catch-up   *)
(* is one run, whatever the interval and however long the pause.           *)
LEMMA DivisionRoundsDown ==
  ASSUME NEW a \in Nat, NEW n \in Nat \ {0}
  PROVE  (a \div n + 1) * n > a
BY Z3T(30)

LEMMA SlotAhead ==
  ASSUME NEW row \in Row, NEW now \in Int
  PROVE  NextSlot(row, now) \in Int /\ NextSlot(row, now) > now /\ NextSlot(row, now) > row.next
<1>1. row.next \in Int
  BY DEF Row
<1>2. CASE now < row.next
  BY <1>1, <1>2, IntervalAssumption DEF NextSlot
<1>3. CASE ~ (now < row.next)
  <2>1. PICK a \in Nat : a = now - row.next
    BY <1>1, <1>3
  <2>2. PICK q \in Nat : q = a \div Interval
    BY <2>1, IntervalAssumption
  <2>3. (q + 1) * Interval > a
    BY <2>1, <2>2, DivisionRoundsDown, IntervalAssumption
  <2>4. NextSlot(row, now) = row.next + (q + 1) * Interval
    BY <1>3, <2>1, <2>2 DEF NextSlot
  <2>5. PICK d \in Int : d = (q + 1) * Interval
    BY <2>2, IntervalAssumption
  <2> QED BY <1>1, <1>3, <2>1, <2>3, <2>4, <2>5
<1> QED BY <1>2, <1>3

LEMMA Advanced ==
  ASSUME NEW row \in Row, NEW now \in Int
  PROVE  /\ AdvanceAfterRun(row, now) \in Row
         /\ AdvanceAfterRun(row, now).next = NextSlot(row, now)
         /\ AdvanceAfterRun(row, now).targets = row.targets
BY SlotAhead DEF AdvanceAfterRun, Row

LEMMA WriteTyped ==
  ASSUME NEW rows \in Seq(Clones)
  PROVE  RequestTyped(Write(rows))
BY DEF RequestTyped, Write, Idle

LEMMA RestOfRows ==
  ASSUME NEW r, r.pc = "write", RequestTyped(r)
  PROVE  /\ Head(r.rows) \in Clones
         /\ RequestTyped(Write(Tail(r.rows)))
<1>1. r.rows \in Seq(Clones) /\ r.rows # << >>
  BY DEF RequestTyped, Idle
<1>2. Head(r.rows) \in Clones /\ Tail(r.rows) \in Seq(Clones)
  BY <1>1
<1> QED BY <1>2, WriteTyped

----------------------------------------------------------------------------
(* Every action keeps the types *)

LEMMA InitTyped == Init => TypeInv
<1> SUFFICES ASSUME Init PROVE TypeInv
  OBVIOUS
<1>1. ScalarsTyped
  BY BoundAssumption DEF Init, ScalarsTyped
<1>2. TablesTyped
  BY DEF Init, TablesTyped, IsTable, ArePolicies, None
<1>3. RequestsTyped
  BY DEF Init, RequestsTyped, RequestTyped
<1>4. RunTyped /\ RansTyped
  BY DEF Init, RunTyped, RansTyped, NoRun
<1> QED BY <1>1, <1>2, <1>3, <1>4 DEF TypeInv

(* A step of a handler. *)
LEMMA HandlerTyped ==
  ASSUME TypeInv, ScalarsTyped', TablesTyped', NEW c \in Clients,
         NEW r, RequestTyped(r), req' = [req EXCEPT ![c] = r],
         UNCHANGED <<clock, sch, ran>>
  PROVE  TypeInv'
<1>1. RequestsTyped'
  BY DEF TypeInv, RequestsTyped
<1>2. RunTyped' /\ RansTyped'
  BY DEF TypeInv, RunTyped, RansTyped
<1> QED BY <1>1, <1>2 DEF TypeInv

LEMMA CreateScheduleTyped ==
  ASSUME TypeInv, NEW c \in Clients, NEW r \in Requests, CreateSchedule(c, r)
  PROVE  TypeInv'
<1> DEFINE new == [op |-> r.row.op, targets |-> r.row.targets, policy |-> r.row.policy,
                   threshold |-> r.row.threshold, enabled |-> r.row.enabled, next |-> clock + Interval]
<1>1. new \in Row /\ r.id \in Ids
  <2>1. clock + Interval \in Int
    BY IntervalAssumption DEF TypeInv, ScalarsTyped
  <2> QED BY <2>1, RequestAssumption DEF Row
<1>2. /\ schedules' = With(schedules, r.id, new)
      /\ req' = [req EXCEPT ![c] = Write(<<[id |-> r.id, row |-> new]>>)]
      /\ UNCHANGED <<clock, targets, managed, policies, keys, tables, lock, sch, ran, faults>>
  BY DEF CreateSchedule
<1> HIDE DEF new
<1>3. ScalarsTyped'
  BY <1>2 DEF TypeInv, ScalarsTyped, tables
<1>4. TablesTyped'
  BY <1>1, <1>2, WithRow DEF TypeInv, TablesTyped, tables, IsTable, ArePolicies
<1>5. <<[id |-> r.id, row |-> new]>> \in Seq(Clones)
  BY <1>1 DEF Clones
<1> QED BY <1>2, <1>3, <1>4, <1>5, WriteTyped, HandlerTyped

LEMMA SetScheduleEnabledTyped ==
  ASSUME TypeInv, NEW c \in Clients, NEW id \in Ids, NEW on \in BOOLEAN, SetScheduleEnabled(c, id, on)
  PROVE  TypeInv'
<1>1. PICK new : new = [schedules[id] EXCEPT !.enabled = on]
  OBVIOUS
<1>2. /\ schedules' = [schedules EXCEPT ![id] = new] /\ id \in DOMAIN schedules
      /\ req' = [req EXCEPT ![c] = Write(<<[id |-> id, row |-> new]>>)]
      /\ UNCHANGED <<clock, targets, managed, policies, keys, tables, lock, sch, ran, faults>>
  BY <1>1 DEF SetScheduleEnabled
<1>3. new \in Row
  BY <1>1, <1>2 DEF TypeInv, TablesTyped, IsTable, Row
<1>4. ScalarsTyped'
  BY <1>2 DEF TypeInv, ScalarsTyped, tables
<1>5. TablesTyped'
  BY <1>2, <1>3 DEF TypeInv, TablesTyped, tables, IsTable, ArePolicies
<1>6. <<[id |-> id, row |-> new]>> \in Seq(Clones)
  BY <1>3 DEF Clones
<1> QED BY <1>2, <1>4, <1>5, <1>6, WriteTyped, HandlerTyped

LEMMA DisableSchedulesTyped ==
  ASSUME TypeInv, NEW c \in Clients, NEW t \in Targets, DisableSchedulesForTarget(c, t)
  PROVE  TypeInv'
<1> DEFINE hit == {s \in DOMAIN schedules : schedules[s].enabled /\ t \in schedules[s].targets}
           off == [s \in DOMAIN schedules |-> [schedules[s] EXCEPT !.enabled = @ /\ s \notin hit]]
<1>1. PICK order \in [1..Cardinality(hit) -> hit] :
        req' = [req EXCEPT ![c] = Write([i \in DOMAIN order |-> [id |-> order[i], row |-> off[order[i]]]])]
  BY Zenon DEF DisableSchedulesForTarget
<1>2. /\ managed' = managed \ {t} /\ schedules' = off
      /\ UNCHANGED <<clock, targets, policies, keys, tables, lock, sch, ran, faults>>
  BY DEF DisableSchedulesForTarget
<1>3. IsTable(off) /\ DOMAIN off = DOMAIN schedules
  BY DEF TypeInv, TablesTyped, IsTable, Row
<1>4. Cardinality(hit) \in Nat
  <2>1. hit \subseteq Ids
    BY DEF TypeInv, TablesTyped, IsTable
  <2> QED BY <2>1, IdsAssumption, FS_Subset, FS_CardinalityType
<1>5. hit \subseteq DOMAIN schedules
  OBVIOUS
<1> HIDE DEF off, hit
<1>6. [i \in DOMAIN order |-> [id |-> order[i], row |-> off[order[i]]]] \in Seq(Clones)
  <2>1. \A i \in 1..Cardinality(hit) : [id |-> order[i], row |-> off[order[i]]] \in Clones
    BY <1>5, <1>1, <1>3 DEF IsTable, Clones
  <2> QED BY <1>1, <1>4, <2>1
<1>7. ScalarsTyped'
  BY <1>2 DEF TypeInv, ScalarsTyped, tables
<1>8. TablesTyped'
  BY <1>2, <1>3 DEF TypeInv, TablesTyped, tables
<1> QED BY <1>1, <1>2, <1>6, <1>7, <1>8, WriteTyped, HandlerTyped

LEMMA WriteRowTyped ==
  ASSUME TypeInv, NEW c \in Clients, WriteRow(c) \/ WriteRowFails(c)
  PROVE  TypeInv'
<1>1. req[c].pc = "write" /\ RequestTyped(req[c])
  BY DEF TypeInv, RequestsTyped, WriteRow, WriteRowFails
<1>2. /\ Head(req[c].rows).id \in Ids /\ Head(req[c].rows).row \in Row
      /\ RequestTyped(Write(Tail(req[c].rows)))
  BY <1>1, RestOfRows DEF Clones
<1>3. req' = [req EXCEPT ![c] = Write(Tail(req[c].rows))] /\ UNCHANGED <<clock, sch, ran>>
  BY DEF WriteRow, WriteRowFails, TypeInv, RequestsTyped
<1>4. ScalarsTyped'
  BY BoundAssumption DEF TypeInv, ScalarsTyped, WriteRow, WriteRowFails, memory, tables
<1>5. TablesTyped'
  <2>1. CASE WriteRow(c)
    BY <1>2, <2>1, WithRow DEF TypeInv, TablesTyped, WriteRow, memory, Upsert
  <2>2. CASE WriteRowFails(c)
    BY <2>2 DEF TypeInv, TablesTyped, WriteRowFails, memory, tables
  <2> QED BY <2>1, <2>2
<1> QED BY <1>2, <1>3, <1>4, <1>5, HandlerTyped

LEMMA DeleteTargetTyped ==
  ASSUME TypeInv, NEW c \in Clients, DeleteTargetRows(c)
  PROVE  TypeInv'
<1>1. PICK t \in Targets : t = req[c].target
  BY DEF TypeInv, RequestsTyped, RequestTyped, DeleteTargetRows, Idle
<1>2. /\ req' = [req EXCEPT ![c] = [pc |-> "deleted", target |-> t]]
      /\ lock' = c /\ dbTargets' = dbTargets \ {t} /\ jobs' \subseteq jobs
      /\ dbSchedules' = PrunedSchedules(dbSchedules, dbPolicies, t)
      /\ dbPolicies' = PrunedPolicies(dbPolicies, t)
      /\ UNCHANGED <<clock, managed, memory, sch, ran, faults>>
      /\ t \in targets
  BY <1>1 DEF DeleteTargetRows, Removable
<1>3. ScalarsTyped'
  BY <1>2 DEF TypeInv, ScalarsTyped, memory
<1>4. TablesTyped'
  BY <1>2, PrunedRows, PrunedScopes DEF TypeInv, TablesTyped, memory
<1>5. RequestTyped([pc |-> "deleted", target |-> t])
  BY DEF RequestTyped
<1> QED BY <1>2, <1>3, <1>4, <1>5, HandlerTyped

(* A deletion that waits for the lock, or ends without having had it. *)
LEMMA WaitingTyped ==
  ASSUME TypeInv, NEW c \in Clients,
         (\E t \in Targets : DeleteTarget(c, t)) \/ RefuseDeletion(c) \/ GiveUpDeletion(c)
  PROVE  TypeInv'
<1>1. UNCHANGED <<clock, managed, memory, tables, lock, sch, ran, faults>>
  BY DEF DeleteTarget, RefuseDeletion, GiveUpDeletion
<1>2. PICK r : RequestTyped(r) /\ req' = [req EXCEPT ![c] = r]
  <2>1. \A t \in Targets : RequestTyped([pc |-> "lock", target |-> t])
    BY DEF RequestTyped
  <2>2. RequestTyped(Idle)
    BY DEF RequestTyped
  <2> QED BY <2>1, <2>2 DEF DeleteTarget, RefuseDeletion, GiveUpDeletion
<1>3. ScalarsTyped' /\ TablesTyped'
  BY <1>1 DEF TypeInv, ScalarsTyped, TablesTyped, memory, tables
<1> QED BY <1>1, <1>2, <1>3, HandlerTyped

LEMMA ForgetTargetTyped ==
  ASSUME TypeInv, NEW c \in Clients, DeleteTargetMemory(c)
  PROVE  TypeInv'
<1>1. ScalarsTyped'
  BY DEF TypeInv, ScalarsTyped, DeleteTargetMemory, tables
<1>2. TablesTyped'
  BY PrunedRows, PrunedScopes DEF TypeInv, TablesTyped, DeleteTargetMemory, tables
<1>3. RequestTyped(Idle)
  BY DEF RequestTyped
<1> QED BY <1>1, <1>2, <1>3, HandlerTyped DEF DeleteTargetMemory

LEMMA DeletePolicyTyped ==
  ASSUME TypeInv, NEW c \in Clients, NEW p,
         CheckPolicyUnused(c, p) \/ DeletePolicyRow(c) \/ ForgetPolicy(c)
  PROVE  TypeInv'
<1>1. ScalarsTyped'
  BY DEF TypeInv, ScalarsTyped, CheckPolicyUnused, DeletePolicyRow, ForgetPolicy, memory, tables
<1>2. TablesTyped'
  BY PrunedScopes DEF TypeInv, TablesTyped, CheckPolicyUnused, DeletePolicyRow, ForgetPolicy, memory, tables
<1>3. \A q : RequestTyped([pc |-> "unused", policy |-> q]) /\ RequestTyped([pc |-> "forget", policy |-> q])
              /\ RequestTyped(Idle)
  BY DEF RequestTyped
<1>4. PICK r : RequestTyped(r) /\ req' = [req EXCEPT ![c] = r]
  BY <1>3 DEF CheckPolicyUnused, DeletePolicyRow, ForgetPolicy
<1>5. UNCHANGED <<clock, sch, ran>>
  BY DEF CheckPolicyUnused, DeletePolicyRow, ForgetPolicy
<1> QED BY <1>1, <1>2, <1>4, <1>5, HandlerTyped

(* A step of the scheduler, which leaves the handlers alone. *)
LEMMA SchedulerTyped ==
  ASSUME TypeInv, ScalarsTyped', TablesTyped', RunTyped', RansTyped', UNCHANGED req
  PROVE  TypeInv'
BY DEF TypeInv, RequestsTyped

LEMMA PollTyped ==
  ASSUME TypeInv, Poll
  PROVE  TypeInv'
<1> DEFINE due == {s \in DOMAIN schedules : IsDue(schedules[s], clock)}
<1>1. sch' = Loop(clock, [s \in due |-> schedules[s]]) /\ lock' = "scheduler"
  BY DEF Poll
<1>2. UNCHANGED <<clock, managed, memory, tables, req, ran, faults>>
  BY DEF Poll
<1>3. IsTable([s \in due |-> schedules[s]])
  BY DEF TypeInv, TablesTyped, IsTable
<1> HIDE DEF due
<1>4. ScalarsTyped' /\ TablesTyped' /\ RansTyped'
  BY <1>1, <1>2 DEF TypeInv, ScalarsTyped, TablesTyped, RansTyped, memory, tables
<1>5. RunTyped'
  <2>1. /\ sch'.pc = "next" /\ sch'.now = clock /\ sch'.due = [s \in due |-> schedules[s]]
        /\ clock' = clock /\ clock \in 0..clock
    BY <1>1, <1>2 DEF Loop, TypeInv, ScalarsTyped
  <2> QED BY <1>1, <1>3, <2>1 DEF RunTyped
<1> QED BY <1>2, <1>4, <1>5, SchedulerTyped

LEMMA NextScheduleTyped ==
  ASSUME TypeInv, NEW s \in Ids, NextSchedule(s)
  PROVE  TypeInv'
<1>1. PICK rest : rest = Without(sch.due, s)
  OBVIOUS
<1>2. /\ sch.pc = "next" /\ s \in DOMAIN sch.due
      /\ UNCHANGED <<clock, managed, memory, tables, req, lock, faults>>
  BY DEF NextSchedule
<1>3. /\ sch = Loop(sch.now, sch.due) /\ sch.now \in 0..clock /\ IsTable(sch.due)
      /\ sch.due[s] \in Row
  BY <1>2 DEF TypeInv, RunTyped, IsTable
<1>4. IsTable(rest)
  BY <1>1, <1>3, WithoutRow
<1>5. ScalarsTyped' /\ TablesTyped'
  BY <1>2 DEF TypeInv, ScalarsTyped, TablesTyped, memory, tables
<1>6. CASE sch' = [sch EXCEPT !.due = rest] /\ ran' = ran
  <2>1. sch' = Loop(sch.now, rest)
    BY <1>3, <1>6 DEF Loop
  <2>2. RunTyped'
    BY <1>2, <1>3, <1>4, <2>1 DEF RunTyped, Loop
  <2> QED BY <1>2, <1>5, <1>6, <2>2, SchedulerTyped DEF TypeInv, RansTyped
<1>7. CASE /\ \E pc \in {"gate", "run"} : sch' = Run(pc, s, sch.due[s], rest, sch.now)
           /\ ran' = [ran EXCEPT ![s] = @ \cup {sch.now}]
  <2>1. RunTyped'
    BY <1>2, <1>3, <1>4, <1>7 DEF RunTyped, Run
  <2>2. RansTyped'
    BY <1>2, <1>3, <1>7 DEF TypeInv, RansTyped
  <2> QED BY <1>2, <1>5, <2>1, <2>2, SchedulerTyped
<1> QED BY <1>1, <1>6, <1>7 DEF NextSchedule, FirstStep

LEMMA BackupTyped ==
  ASSUME TypeInv, TakeGate \/ EndBackup
  PROVE  TypeInv'
<1>1. PICK pc \in {"backup", "run"} : sch' = [sch EXCEPT !.pc = pc]
  BY DEF TakeGate, EndBackup
<1>2. /\ sch.pc \in {"gate", "backup"}
      /\ UNCHANGED <<clock, managed, memory, tables, req, lock, ran, faults>>
  BY DEF TakeGate, EndBackup
<1>3. /\ sch = [pc |-> sch.pc, now |-> sch.now, due |-> sch.due, id |-> sch.id, row |-> sch.row,
                todo |-> sch.todo, target |-> sch.target]
      /\ sch.todo \subseteq sch.row.targets
      /\ sch.now \in 0..clock /\ IsTable(sch.due) /\ sch.id \in Ids /\ sch.row \in Row
  BY <1>2 DEF TypeInv, RunTyped
<1>4. sch' = [pc |-> pc, now |-> sch.now, due |-> sch.due, id |-> sch.id, row |-> sch.row,
              todo |-> sch.todo, target |-> sch.target]
  BY <1>1, <1>3
<1>5. RunTyped'
  BY <1>2, <1>3, <1>4 DEF RunTyped
<1>6. ScalarsTyped' /\ TablesTyped' /\ RansTyped'
  BY <1>2 DEF TypeInv, ScalarsTyped, TablesTyped, RansTyped, memory, tables
<1> QED BY <1>2, <1>5, <1>6, SchedulerTyped

LEMMA EndPollTyped ==
  ASSUME TypeInv, EndPoll
  PROVE  TypeInv'
<1>1. ScalarsTyped' /\ TablesTyped' /\ RansTyped'
  BY DEF EndPoll, TypeInv, ScalarsTyped, TablesTyped, RansTyped, memory, tables
<1>2. RunTyped'
  BY DEF EndPoll, RunTyped, NoRun
<1> QED BY <1>1, <1>2, SchedulerTyped DEF EndPoll

LEMMA DispatchTargetTyped ==
  ASSUME TypeInv, NEW t \in Targets, NEW met \in BOOLEAN, DispatchTarget(t, met)
  PROVE  TypeInv'
<1>1. PICK key : key = <<t, JobKey(sch.id, sch.row, sch.now)>>
  OBVIOUS
<1>2. PICK pc \in {"run", "save"} :
        /\ sch' = [sch EXCEPT !.pc = pc, !.todo = @ \ {t}, !.target = t]
        /\ keys' \in {keys, keys \cup {key}}
  BY <1>1 DEF DispatchTarget
<1>3. /\ sch.pc = "run" /\ t \in sch.todo
      /\ UNCHANGED <<clock, targets, managed, policies, schedules, tables, req, lock, ran, faults>>
  BY DEF DispatchTarget
<1>4. key \in Targets \X (Ids \X Int)
  BY <1>1, <1>3 DEF JobKey, TypeInv, RunTyped, Row
<1>5. ScalarsTyped' /\ TablesTyped' /\ RansTyped'
  BY <1>2, <1>3, <1>4 DEF TypeInv, ScalarsTyped, TablesTyped, RansTyped, tables
<1>6. RunTyped'
  <2>1. /\ sch = [pc |-> sch.pc, now |-> sch.now, due |-> sch.due, id |-> sch.id, row |-> sch.row,
                  todo |-> sch.todo, target |-> sch.target]
        /\ sch.todo \subseteq sch.row.targets
        /\ sch.now \in 0..clock /\ IsTable(sch.due) /\ sch.id \in Ids /\ sch.row \in Row
    BY <1>3 DEF TypeInv, RunTyped
  <2>2. sch' = [pc |-> pc, now |-> sch.now, due |-> sch.due, id |-> sch.id, row |-> sch.row,
                todo |-> sch.todo \ {t}, target |-> t]
    BY <1>2, <2>1
  <2> QED BY <1>3, <2>1, <2>2 DEF RunTyped
<1> QED BY <1>3, <1>5, <1>6, SchedulerTyped

LEMMA SaveJobTyped ==
  ASSUME TypeInv, NEW stored \in BOOLEAN, SaveJob(stored)
  PROVE  TypeInv'
<1>1. /\ sch.pc = "save" /\ sch' = [sch EXCEPT !.pc = "run"]
      /\ UNCHANGED <<clock, managed, memory, dbTargets, dbPolicies, dbSchedules, req, lock, ran>>
  BY DEF SaveJob
<1>2. /\ sch = [pc |-> sch.pc, now |-> sch.now, due |-> sch.due, id |-> sch.id, row |-> sch.row,
                todo |-> sch.todo, target |-> sch.target]
      /\ sch.todo \subseteq sch.row.targets /\ sch.target \in Targets
      /\ sch.now \in 0..clock /\ IsTable(sch.due) /\ sch.id \in Ids /\ sch.row \in Row
  BY <1>1 DEF TypeInv, RunTyped
<1>3. RunTyped'
  <2>1. sch' = [pc |-> "run", now |-> sch.now, due |-> sch.due, id |-> sch.id, row |-> sch.row,
                todo |-> sch.todo, target |-> sch.target]
    BY <1>1, <1>2
  <2> QED BY <1>1, <1>2, <2>1 DEF RunTyped
<1>4. [id |-> sch.id, target |-> sch.target, slot |-> sch.row.next,
       key |-> JobKey(sch.id, sch.row, sch.now), status |-> "queued"] \in Jobs
  BY <1>2 DEF Jobs, JobKey, Row
<1>5. TablesTyped'
  BY <1>1, <1>4 DEF TypeInv, TablesTyped, SaveJob, memory
<1>6. ScalarsTyped' /\ RansTyped'
  BY <1>1, BoundAssumption DEF TypeInv, ScalarsTyped, RansTyped, SaveJob, memory
<1> QED BY <1>1, <1>3, <1>5, <1>6, SchedulerTyped

LEMMA AdvanceTyped ==
  ASSUME TypeInv, Advance
  PROVE  TypeInv'
<1>1. /\ sch.pc = "run"
      /\ UNCHANGED <<clock, targets, managed, policies, keys, tables, req, lock, ran, faults>>
  BY DEF Advance
<1>2. sch.now \in 0..clock /\ IsTable(sch.due) /\ sch.id \in Ids
  BY <1>1 DEF TypeInv, RunTyped
<1>3. ScalarsTyped' /\ RansTyped'
  BY <1>1 DEF TypeInv, ScalarsTyped, RansTyped, tables
<1>4. CASE sch.id \in DOMAIN schedules
  <2>1. PICK new : new = AdvanceAfterRun(schedules[sch.id], sch.now)
    OBVIOUS
  <2>2. /\ schedules' = [schedules EXCEPT ![sch.id] = new]
        /\ sch' = [pc |-> "persist", now |-> sch.now, due |-> sch.due, id |-> sch.id, row |-> new]
    BY <1>4, <2>1 DEF Advance
  <2>3. new \in Row
    BY <1>2, <1>4, <2>1, Advanced DEF TypeInv, TablesTyped, IsTable
  <2>4. TablesTyped'
    BY <1>1, <2>2, <2>3 DEF TypeInv, TablesTyped, IsTable, tables
  <2>5. RunTyped'
    BY <1>1, <1>2, <2>2, <2>3 DEF RunTyped
  <2> QED BY <1>1, <1>3, <2>4, <2>5, SchedulerTyped
<1>5. CASE sch.id \notin DOMAIN schedules
  <2>1. sch' = Loop(sch.now, sch.due) /\ schedules' = schedules
    BY <1>5 DEF Advance
  <2>2. TablesTyped'
    BY <1>1, <2>1 DEF TypeInv, TablesTyped, tables
  <2>3. RunTyped'
    BY <1>1, <1>2, <2>1 DEF RunTyped, Loop
  <2> QED BY <1>1, <1>3, <2>2, <2>3, SchedulerTyped
<1> QED BY <1>4, <1>5

LEMMA PersistAdvanceTyped ==
  ASSUME TypeInv, NEW stored \in BOOLEAN, PersistAdvance(stored)
  PROVE  TypeInv'
<1>1. /\ sch.pc = "persist" /\ sch' = Loop(sch.now, sch.due)
      /\ UNCHANGED <<clock, managed, memory, dbTargets, dbPolicies, jobs, req, lock, ran>>
      /\ dbSchedules' \in {dbSchedules, With(dbSchedules, sch.id, sch.row)}
  BY DEF PersistAdvance, Upsert
<1>2. sch.now \in 0..clock /\ IsTable(sch.due) /\ sch.id \in Ids /\ sch.row \in Row
  BY <1>1 DEF TypeInv, RunTyped
<1>3. ScalarsTyped' /\ RansTyped'
  BY <1>1, BoundAssumption DEF TypeInv, ScalarsTyped, RansTyped, PersistAdvance, memory
<1>4. TablesTyped'
  BY <1>1, <1>2, WithRow DEF TypeInv, TablesTyped, memory
<1>5. RunTyped'
  BY <1>1, <1>2 DEF RunTyped, Loop
<1> QED BY <1>1, <1>3, <1>4, <1>5, SchedulerTyped

LEMMA RestartTyped ==
  ASSUME TypeInv, NEW lost \in SUBSET {"targets", "schedules", "policies"}, Restart(lost)
  PROVE  TypeInv'
<1>1. IsTable(None) /\ ArePolicies(None)
  BY DEF IsTable, ArePolicies, None
<1>2. TablesTyped'
  BY <1>1 DEF TypeInv, TablesTyped, Restart, Restored, tables
<1>3. Cardinality(lost) \in Nat
  <2>1. IsFiniteSet({"targets", "schedules", "policies"})
    <3>1. IsFiniteSet((({} \cup {"targets"}) \cup {"schedules"}) \cup {"policies"})
      BY FS_EmptySet, FS_AddElement, Zenon
    <3>2. (({} \cup {"targets"}) \cup {"schedules"}) \cup {"policies"} = {"targets", "schedules", "policies"}
      OBVIOUS
    <3> QED BY <3>1, <3>2
  <2> QED BY <2>1, FS_Subset, FS_CardinalityType
<1>4. ScalarsTyped'
  BY <1>3, BoundAssumption DEF TypeInv, ScalarsTyped, Restart, tables
<1>5. RequestsTyped'
  BY DEF Restart, RequestsTyped, RequestTyped
<1>6. RunTyped' /\ RansTyped'
  BY DEF Restart, RunTyped, RansTyped, NoRun
<1> QED BY <1>2, <1>4, <1>5, <1>6 DEF TypeInv

LEMMA EnvironmentTyped ==
  ASSUME TypeInv, (\E t \in Targets : Heartbeat(t)) \/ Tick \/ WorkerHeartbeat \/ (\E j \in jobs : MoveJob(j))
                    \/ UNCHANGED vars
  PROVE  TypeInv'
<1>1. jobs' \subseteq Jobs
  <2>1. ASSUME NEW j \in Jobs
        PROVE  [j EXCEPT !.status = "active"] \in Jobs /\ [j EXCEPT !.status = "done"] \in Jobs
    BY DEF Jobs
  <2> QED BY <2>1 DEF TypeInv, TablesTyped, Heartbeat, Tick, WorkerHeartbeat, MoveJob, vars, tables
<1>2. UNCHANGED <<memory, dbTargets, dbPolicies, dbSchedules, req, lock, sch, ran, faults>>
  BY DEF Heartbeat, Tick, WorkerHeartbeat, MoveJob, vars, tables
<1>3. clock' \in clock..MaxTime /\ (managed' = managed \/ \E t \in targets : managed' = managed \cup {t})
  BY BoundAssumption DEF Heartbeat, Tick, WorkerHeartbeat, MoveJob, vars, TypeInv, ScalarsTyped
<1>4. ScalarsTyped' /\ TablesTyped'
  BY <1>1, <1>2, <1>3 DEF TypeInv, ScalarsTyped, TablesTyped, memory
<1>5. RequestsTyped' /\ RansTyped'
  BY <1>2, <1>3 DEF TypeInv, RequestsTyped, RansTyped, ScalarsTyped
<1>6. RunTyped'
  BY <1>2, <1>3 DEF TypeInv, RunTyped, ScalarsTyped
<1> QED BY <1>4, <1>5, <1>6 DEF TypeInv

LEMMA NextTyped ==
  ASSUME TypeInv, [Next]_vars
  PROVE  TypeInv'
BY CreateScheduleTyped, SetScheduleEnabledTyped, DisableSchedulesTyped, WriteRowTyped, DeleteTargetTyped,
   WaitingTyped, BackupTyped, ForgetTargetTyped, DeletePolicyTyped, PollTyped, NextScheduleTyped, EndPollTyped, DispatchTargetTyped,
   SaveJobTyped, AdvanceTyped, PersistAdvanceTyped, RestartTyped, EnvironmentTyped
   DEF Next, SchedulerStep, RequestStep, HandlerStep

LEMMA TypesHold == Spec => []TypeInv
<1>1. TypeInv /\ [Next]_vars => TypeInv'
  BY NextTyped
<1> QED BY InitTyped, <1>1, PTL DEF Spec

----------------------------------------------------------------------------
(* One job per slot.  The invariant is that a row's key names its slot: the *)
(* unique index on the key is what keeps a second row out.                  *)

KeysNameSlots == \A j \in jobs : j.key = <<j.id, j.slot>>
SlotInv == KeysNameSlots /\ SlotOnce

LEMMA FewerJobs ==
  ASSUME SlotInv, jobs' \subseteq jobs
  PROVE  SlotInv'
BY DEF SlotInv, KeysNameSlots, SlotOnce

LEMMA SaveJobOnce ==
  ASSUME TypeInv, SlotInv, NEW stored \in BOOLEAN, SaveJob(stored)
  PROVE  SlotInv'
<1>1. CASE jobs' = jobs
  BY <1>1, FewerJobs
<1>2. CASE jobs' # jobs
  <2>1. PICK new : new = [id |-> sch.id, target |-> sch.target, slot |-> sch.row.next,
                          key |-> JobKey(sch.id, sch.row, sch.now), status |-> "queued"]
    OBVIOUS
  <2>2. /\ jobs' = jobs \cup {new}
        /\ \A j \in jobs : j.target = new.target => j.key # new.key
    BY <1>2, <2>1 DEF SaveJob
  <2>3. new.key = <<new.id, new.slot>>
    BY <2>1 DEF JobKey
  <2> QED BY <2>2, <2>3 DEF SlotInv, KeysNameSlots, SlotOnce
<1> QED BY <1>1, <1>2

LEMMA MoveJobOnce ==
  ASSUME TypeInv, SlotInv, NEW j \in jobs, MoveJob(j)
  PROVE  SlotInv'
<1>1. PICK moved : /\ moved \in {[j EXCEPT !.status = "active"], [j EXCEPT !.status = "done"]}
                   /\ jobs' = (jobs \ {j}) \cup {moved}
  BY DEF MoveJob
<1>2. /\ moved.id = j.id /\ moved.target = j.target /\ moved.slot = j.slot /\ moved.key = j.key
  BY <1>1 DEF TypeInv, TablesTyped, Jobs
<1> QED BY <1>1, <1>2 DEF SlotInv, KeysNameSlots, SlotOnce

LEMMA OtherJobsStep ==
  ASSUME [Next]_vars, \A stored \in BOOLEAN : ~ SaveJob(stored), \A j \in jobs : ~ MoveJob(j)
  PROVE  jobs' \subseteq jobs
BY DEF Next, SchedulerStep, RequestStep, HandlerStep, vars, tables, CreateSchedule, SetScheduleEnabled,
       DisableSchedulesForTarget, WriteRow, WriteRowFails, DeleteTarget, DeleteTargetRows,
       RefuseDeletion, GiveUpDeletion, DeleteTargetMemory, TakeGate, EndBackup,
       CheckPolicyUnused, DeletePolicyRow, ForgetPolicy, Poll, NextSchedule, EndPoll, DispatchTarget,
       Advance, PersistAdvance, Restart, Heartbeat, Tick, WorkerHeartbeat

(* SlotOnce, for any number of schedules, targets, requests, restarts and  *)
(* lost writes: a schedule inserts at most one job for a target and a      *)
(* slot, although the advanced row may be lost or overwritten by a stale   *)
(* clone and the slot polled again.                                        *)
THEOREM OneJobPerSlot == Spec => []SlotOnce
<1>1. Init => SlotInv
  BY DEF Init, SlotInv, KeysNameSlots, SlotOnce
<1>2. TypeInv /\ SlotInv /\ [Next]_vars => SlotInv'
  BY SaveJobOnce, MoveJobOnce, OtherJobsStep, FewerJobs
<1>3. SlotInv => SlotOnce
  BY DEF SlotInv
<1> QED BY <1>1, <1>2, <1>3, TypesHold, PTL DEF Spec

----------------------------------------------------------------------------
(* One catch-up.  A schedule that ran at a poll has its next slot after it, *)
(* unless the run has not advanced it yet; and the poll in progress holds   *)
(* no clone of a schedule it has run.                                       *)

RanIsPast ==
  \A s \in Ids : s \in DOMAIN schedules =>
    \A r \in ran[s] : schedules[s].next > r \/ (sch.pc \in {"run", "save", "gate", "backup"} /\ sch.id = s)
RansBefore == sch.pc # "idle" => \A s \in Ids : \A r \in ran[s] : r <= sch.now
DueIsNew == sch.pc # "idle" => \A s \in DOMAIN sch.due : sch.now \notin ran[s]
CatchUpInv == RanIsPast /\ RansBefore /\ DueIsNew

(* What the handlers do to the slots. *)
SlotsKept ==
  /\ UNCHANGED <<clock, sch, ran>>
  /\ \A s \in DOMAIN schedules' :
       \/ s \in DOMAIN schedules /\ schedules'[s].next = schedules[s].next
       \/ s \in Ids /\ schedules'[s].next > clock

LEMMA SlotsKeptCatchUp ==
  ASSUME TypeInv, TypeInv', CatchUpInv, SlotsKept
  PROVE  CatchUpInv'
<1>1. RanIsPast'
  <2> SUFFICES ASSUME NEW s \in Ids, s \in DOMAIN schedules', NEW r \in ran[s]
               PROVE  schedules'[s].next > r \/ (sch.pc \in {"run", "save", "gate", "backup"} /\ sch.id = s)
    BY DEF RanIsPast, SlotsKept
  <2>1. r \in 0..clock /\ clock \in Nat /\ schedules'[s].next \in Int
    BY BoundAssumption DEF TypeInv, RansTyped, ScalarsTyped, TablesTyped, IsTable, Row
  <2> QED BY <2>1 DEF CatchUpInv, RanIsPast, SlotsKept
<1> QED BY <1>1 DEF CatchUpInv, SlotsKept, RansBefore, DueIsNew

LEMMA HandlersKeepSlots ==
  ASSUME TypeInv, NEW c \in Clients, RequestStep(c) \/ HandlerStep(c) \/ GiveUpDeletion(c)
  PROVE  SlotsKept
<1>0. IsTable(schedules) /\ clock \in Nat
  BY DEF TypeInv, TablesTyped, ScalarsTyped
<1>1. ASSUME NEW r \in Requests, CreateSchedule(c, r) PROVE SlotsKept
  <2>1. clock + Interval > clock
    BY <1>0, IntervalAssumption
  <2> QED BY <1>0, <1>1, <2>1, RequestAssumption DEF CreateSchedule, SlotsKept, With
<1>2. ASSUME NEW s \in Ids, NEW on \in BOOLEAN, SetScheduleEnabled(c, s, on) PROVE SlotsKept
  BY <1>0, <1>2 DEF SetScheduleEnabled, SlotsKept, IsTable, Row
<1>3. ASSUME NEW t \in Targets, DisableSchedulesForTarget(c, t) PROVE SlotsKept
  BY <1>0, <1>3 DEF DisableSchedulesForTarget, SlotsKept, IsTable, Row
<1>4. ASSUME DeleteTargetMemory(c) PROVE SlotsKept
  <2>1. \A ps, t : \A s \in DOMAIN PrunedSchedules(schedules, ps, t) :
          s \in DOMAIN schedules /\ PrunedSchedules(schedules, ps, t)[s].next = schedules[s].next
    BY <1>0, PrunedRows
  <2> QED BY <1>4, <2>1 DEF DeleteTargetMemory, SlotsKept
<1>5. ASSUME UNCHANGED <<clock, sch, ran, schedules>> PROVE SlotsKept
  BY <1>5 DEF SlotsKept
<1>6. ASSUME \/ \E t \in Targets : DeleteTarget(c, t)
             \/ DeleteTargetRows(c) \/ RefuseDeletion(c) \/ GiveUpDeletion(c)
             \/ \E p \in Policies : CheckPolicyUnused(c, p)
             \/ WriteRow(c) \/ WriteRowFails(c) \/ DeletePolicyRow(c) \/ ForgetPolicy(c)
      PROVE  SlotsKept
  BY <1>5, <1>6 DEF DeleteTarget, DeleteTargetRows, RefuseDeletion, GiveUpDeletion, CheckPolicyUnused, WriteRow, WriteRowFails, DeletePolicyRow,
                    ForgetPolicy, memory, tables
<1> QED BY <1>1, <1>2, <1>3, <1>4, <1>6 DEF RequestStep, HandlerStep

LEMMA PollCatchUp ==
  ASSUME TypeInv, CatchUpInv, Poll
  PROVE  CatchUpInv'
<1>1. PICK due : /\ due = {s \in DOMAIN schedules : IsDue(schedules[s], clock)}
                 /\ sch' = Loop(clock, [s \in due |-> schedules[s]])
                 /\ sch.pc = "idle" /\ schedules' = schedules /\ ran' = ran
  BY DEF Poll, memory
<1>2. sch'.pc = "next" /\ sch'.now = clock /\ DOMAIN sch'.due = due
  BY <1>1 DEF Loop
<1>3. \A s \in Ids : \A r \in ran[s] : r \in Int /\ r <= clock
  BY DEF TypeInv, RansTyped, ScalarsTyped
<1>4. ASSUME NEW s \in due PROVE clock \notin ran[s]
  <2>1. s \in Ids /\ s \in DOMAIN schedules /\ schedules[s].next <= clock /\ schedules[s].next \in Int
    BY <1>1, <1>4 DEF IsDue, TypeInv, TablesTyped, IsTable, Row
  <2>2. \A r \in ran[s] : schedules[s].next > r
    BY <1>1, <2>1 DEF CatchUpInv, RanIsPast
  <2> QED BY <2>1, <2>2 DEF TypeInv, ScalarsTyped
<1> QED BY <1>1, <1>2, <1>3, <1>4 DEF CatchUpInv, RanIsPast, RansBefore, DueIsNew

LEMMA NextScheduleCatchUp ==
  ASSUME TypeInv, CatchUpInv, NEW s \in Ids, NextSchedule(s)
  PROVE  CatchUpInv'
<1>1. PICK rest : rest = Without(sch.due, s)
  OBVIOUS
<1>2. /\ sch.pc = "next" /\ s \in DOMAIN sch.due /\ schedules' = schedules
      /\ sch = Loop(sch.now, sch.due) /\ sch.now \in Int
      /\ DOMAIN rest = DOMAIN sch.due \ {s} /\ DOMAIN sch.due \subseteq Ids
  BY <1>1 DEF NextSchedule, memory, TypeInv, RunTyped, Without, IsTable
<1>3. CASE sch' = [sch EXCEPT !.due = rest] /\ ran' = ran
  <2>1. sch'.pc = "next" /\ sch'.now = sch.now /\ sch'.due = rest
    BY <1>2, <1>3 DEF Loop
  <2> QED BY <1>2, <1>3, <2>1 DEF CatchUpInv, RanIsPast, RansBefore, DueIsNew
<1>4. CASE /\ \E pc \in {"gate", "run"} : sch' = Run(pc, s, sch.due[s], rest, sch.now)
           /\ ran' = [ran EXCEPT ![s] = @ \cup {sch.now}]
  <2>1. sch'.pc \in {"gate", "run"} /\ sch'.now = sch.now /\ sch'.due = rest /\ sch'.id = s
    BY <1>4 DEF Run
  <2>2. \A t \in Ids : ran'[t] = IF t = s THEN ran[s] \cup {sch.now} ELSE ran[t]
    BY <1>4 DEF TypeInv, RansTyped
  <2>3. RanIsPast'
    BY <1>2, <2>1, <2>2 DEF CatchUpInv, RanIsPast
  <2>4. RansBefore'
    BY <1>2, <2>1, <2>2 DEF CatchUpInv, RansBefore
  <2>5. DueIsNew'
    BY <1>2, <2>1, <2>2 DEF CatchUpInv, DueIsNew
  <2> QED BY <2>3, <2>4, <2>5 DEF CatchUpInv
<1> QED BY <1>1, <1>3, <1>4 DEF NextSchedule, FirstStep

LEMMA AdvanceCatchUp ==
  ASSUME TypeInv, CatchUpInv, Advance
  PROVE  CatchUpInv'
<1>1. sch.pc = "run" /\ ran' = ran /\ sch.now \in Int /\ sch.id \in Ids
  BY DEF Advance, TypeInv, RunTyped
<1>2. /\ sch'.pc \in {"next", "persist"} /\ sch'.now = sch.now /\ sch'.due = sch.due
  BY DEF Advance, Loop
<1>3. RansBefore' /\ DueIsNew'
  BY <1>1, <1>2 DEF CatchUpInv, RansBefore, DueIsNew
<1>4. CASE sch.id \in DOMAIN schedules
  <2>1. PICK new : /\ new = AdvanceAfterRun(schedules[sch.id], sch.now)
                   /\ schedules' = [schedules EXCEPT ![sch.id] = new]
    BY <1>4 DEF Advance
  <2>2. new.next > sch.now /\ new.next \in Int
    BY <1>1, <1>4, <2>1, Advanced, SlotAhead DEF TypeInv, TablesTyped, IsTable
  <2>3. \A r \in ran[sch.id] : r \in Int /\ r <= sch.now
    BY <1>1 DEF CatchUpInv, RansBefore, TypeInv, RansTyped, ScalarsTyped
  <2>4. RanIsPast'
    BY <1>1, <1>2, <1>4, <2>1, <2>2, <2>3 DEF CatchUpInv, RanIsPast
  <2> QED BY <1>3, <2>4 DEF CatchUpInv
<1>5. CASE sch.id \notin DOMAIN schedules
  <2>1. schedules' = schedules
    BY <1>5 DEF Advance
  <2> QED BY <1>1, <1>2, <1>3, <1>5, <2>1 DEF CatchUpInv, RanIsPast
<1> QED BY <1>4, <1>5

LEMMA OtherRunSteps ==
  ASSUME TypeInv, CatchUpInv,
         \/ EndPoll \/ TakeGate \/ EndBackup
         \/ \E t \in Targets, met \in BOOLEAN : DispatchTarget(t, met)
         \/ \E stored \in BOOLEAN : SaveJob(stored) \/ PersistAdvance(stored)
  PROVE  CatchUpInv'
<1>1. UNCHANGED <<schedules, ran>>
  BY DEF EndPoll, TakeGate, EndBackup, DispatchTarget, SaveJob, PersistAdvance, memory
<1>2. CASE EndPoll
  BY <1>1, <1>2 DEF EndPoll, NoRun, CatchUpInv, RanIsPast, RansBefore, DueIsNew
<1>3. ASSUME NEW t \in Targets, NEW met \in BOOLEAN, DispatchTarget(t, met) PROVE CatchUpInv'
  <2>1. /\ sch.pc = "run" /\ sch'.pc \in {"run", "save"} /\ sch'.now = sch.now /\ sch'.due = sch.due
        /\ sch'.id = sch.id
    <3>1. /\ sch.pc = "run"
          /\ sch = [pc |-> sch.pc, now |-> sch.now, due |-> sch.due, id |-> sch.id, row |-> sch.row,
                    todo |-> sch.todo, target |-> sch.target]
      BY <1>3 DEF DispatchTarget, TypeInv, RunTyped
    <3>2. PICK pc \in {"run", "save"} : sch' = [sch EXCEPT !.pc = pc, !.todo = @ \ {t}, !.target = t]
      BY <1>3 DEF DispatchTarget
    <3> QED BY <3>1, <3>2
  <2> QED BY <1>1, <2>1 DEF CatchUpInv, RanIsPast, RansBefore, DueIsNew
<1>4. ASSUME NEW stored \in BOOLEAN, SaveJob(stored) PROVE CatchUpInv'
  <2>1. /\ sch.pc = "save" /\ sch'.pc = "run" /\ sch'.now = sch.now /\ sch'.due = sch.due
        /\ sch'.id = sch.id
    <3>1. /\ sch.pc = "save"
          /\ sch = [pc |-> sch.pc, now |-> sch.now, due |-> sch.due, id |-> sch.id, row |-> sch.row,
                    todo |-> sch.todo, target |-> sch.target]
      BY <1>4 DEF SaveJob, TypeInv, RunTyped
    <3>2. sch' = [sch EXCEPT !.pc = "run"]
      BY <1>4 DEF SaveJob
    <3> QED BY <3>1, <3>2
  <2> QED BY <1>1, <2>1 DEF CatchUpInv, RanIsPast, RansBefore, DueIsNew
<1>5. ASSUME NEW stored \in BOOLEAN, PersistAdvance(stored) PROVE CatchUpInv'
  BY <1>1, <1>5 DEF PersistAdvance, Loop, CatchUpInv, RanIsPast, RansBefore, DueIsNew
<1>6. ASSUME TakeGate \/ EndBackup PROVE CatchUpInv'
  <2>1. /\ sch.pc \in {"gate", "backup"} /\ sch'.pc \in {"backup", "run"}
        /\ sch'.now = sch.now /\ sch'.due = sch.due /\ sch'.id = sch.id
    <3>1. /\ sch.pc \in {"gate", "backup"}
          /\ sch = [pc |-> sch.pc, now |-> sch.now, due |-> sch.due, id |-> sch.id, row |-> sch.row,
                    todo |-> sch.todo, target |-> sch.target]
      BY <1>6 DEF TakeGate, EndBackup, TypeInv, RunTyped
    <3>2. PICK pc \in {"backup", "run"} : sch' = [sch EXCEPT !.pc = pc]
      BY <1>6 DEF TakeGate, EndBackup
    <3> QED BY <3>1, <3>2
  <2> QED BY <1>1, <2>1 DEF CatchUpInv, RanIsPast, RansBefore, DueIsNew
<1> QED BY <1>2, <1>3, <1>4, <1>5, <1>6

LEMMA CatchUpStep ==
  ASSUME TypeInv, TypeInv', CatchUpInv, [Next]_vars
  PROVE  CatchUpInv'
<1>1. ASSUME UNCHANGED <<schedules, sch, ran>> PROVE CatchUpInv'
  BY <1>1 DEF CatchUpInv, RanIsPast, RansBefore, DueIsNew
<1>2. ASSUME NEW lost, Restart(lost) PROVE CatchUpInv'
  BY <1>2 DEF Restart, NoRun, CatchUpInv, RanIsPast, RansBefore, DueIsNew
<1>3. ASSUME \/ \E t \in Targets : Heartbeat(t)
             \/ Tick \/ WorkerHeartbeat \/ (\E j \in jobs : MoveJob(j)) \/ UNCHANGED vars
      PROVE  CatchUpInv'
  BY <1>1, <1>3 DEF Heartbeat, Tick, WorkerHeartbeat, MoveJob, vars, memory
<1> QED BY <1>2, <1>3, PollCatchUp, NextScheduleCatchUp, AdvanceCatchUp, OtherRunSteps,
           HandlersKeepSlots, SlotsKeptCatchUp DEF Next, SchedulerStep

LEMMA RunsStartFresh ==
  ASSUME TypeInv, CatchUpInv, [Next]_vars
  PROVE  \A s \in Ids : sch'.pc \in Running /\ sch.pc = "next" /\ sch'.id = s => sch.now \notin ran[s]
<1> SUFFICES ASSUME sch'.pc \in {"run", "save", "gate", "backup"}, sch.pc = "next" PROVE sch.now \notin ran[sch'.id]
  BY DEF Running
<1>1. PICK s \in Ids : NextSchedule(s)
  <2>1. ASSUME NEW c \in Clients, RequestStep(c) \/ HandlerStep(c) \/ GiveUpDeletion(c) PROVE sch' = sch
    BY <2>1, HandlersKeepSlots DEF SlotsKept
  <2>2. ASSUME \/ \E t \in Targets : Heartbeat(t)
               \/ Tick \/ WorkerHeartbeat \/ (\E j \in jobs : MoveJob(j)) \/ UNCHANGED vars
        PROVE  sch' = sch
    BY <2>2 DEF Heartbeat, Tick, WorkerHeartbeat, MoveJob, vars
  <2>3. ASSUME NEW lost, Restart(lost) PROVE FALSE
    BY <2>3 DEF Restart, NoRun
  <2>4. ~ Poll /\ ~ EndPoll /\ ~ Advance /\ ~ TakeGate /\ ~ EndBackup
    BY DEF Poll, EndPoll, Advance, TakeGate, EndBackup, NoRun
  <2>5. /\ \A t \in Targets, met \in BOOLEAN : ~ DispatchTarget(t, met)
        /\ \A stored \in BOOLEAN : ~ SaveJob(stored) /\ ~ PersistAdvance(stored)
    BY DEF DispatchTarget, SaveJob, PersistAdvance
  <2> QED BY <2>1, <2>2, <2>3, <2>4, <2>5 DEF Next, SchedulerStep
<1>2. sch'.id = s /\ s \in DOMAIN sch.due
  <2>1. PICK now, due : sch = Loop(now, due)
    BY DEF TypeInv, RunTyped
  <2>2. \A rest : [sch EXCEPT !.due = rest].pc = "next"
    BY <2>1 DEF Loop
  <2>3. PICK rest : \/ sch' = [sch EXCEPT !.due = rest]
                    \/ \E pc \in {"gate", "run"} : sch' = Run(pc, s, sch.due[s], rest, sch.now)
    <3>1. PICK rest : rest = Without(sch.due, s)
      OBVIOUS
    <3>2. \/ sch' = [sch EXCEPT !.due = rest]
          \/ \E pc \in {"gate", "run"} : sch' = Run(pc, s, sch.due[s], rest, sch.now)
      BY <1>1, <3>1 DEF NextSchedule, FirstStep
    <3> QED BY <3>2
  <2>4. s \in DOMAIN sch.due
    BY <1>1 DEF NextSchedule
  <2>5. sch' # [sch EXCEPT !.due = rest]
    <3>1. [sch EXCEPT !.due = rest].pc = "next"
      BY <2>2
    <3> QED BY <3>1
  <2>6. sch'.id = s
    BY <2>3, <2>5 DEF Run
  <2> QED BY <2>4, <2>6
<1> QED BY <1>2 DEF CatchUpInv, DueIsNew

(* OneCatchUp, for every interval, pause of the process and number of      *)
(* schedules: advance_after_run leaves a schedule that ran at a poll due   *)
(* only after it, however many slots were missed and however handlers      *)
(* toggle, recreate or prune it meanwhile.                                 *)
THEOREM MissedSlotsRunOnce == Spec => OneCatchUp
<1>1. Init => CatchUpInv
  BY DEF Init, NoRun, CatchUpInv, RanIsPast, RansBefore, DueIsNew
<1>2. TypeInv /\ TypeInv' /\ CatchUpInv /\ [Next]_vars => CatchUpInv'
  BY CatchUpStep
<1>3. TypeInv /\ CatchUpInv /\ [Next]_vars =>
        [\A s \in Ids : sch'.pc \in Running /\ sch.pc = "next" /\ sch'.id = s => sch.now \notin ran[s]]_vars
  BY RunsStartFresh
<1> QED BY <1>1, <1>2, <1>3, TypesHold, PTL DEF Spec, OneCatchUp

----------------------------------------------------------------------------
(* Scopes within one process.  scheduler_lock keeps delete_target and a    *)
(* poll apart (LockHeld), so that what the poll cloned stays registered    *)
(* (RunScoped); the handlers without the lock only narrow scopes or        *)
(* validate them.                                                          *)

LockHeld ==
  /\ sch.pc # "idle" => lock = "scheduler"
  /\ \A c \in Clients : req[c].pc = "deleted" => lock = c
MemoryScoped == \A s \in DOMAIN schedules : schedules[s].targets \subseteq targets
RunScoped ==
  /\ sch.pc # "idle" => \A s \in DOMAIN sch.due : sch.due[s].targets \subseteq targets
  /\ sch.pc \in {"run", "save", "gate", "backup"} => sch.row.targets \subseteq targets
ScopeInv == LockHeld /\ MemoryScoped /\ RunScoped

(* The life of one process: it starts from registered data and ends with   *)
(* the next restart, which may find a table it cannot read.                *)
InProcess == Next /\ ~ \E lost \in SUBSET {"targets", "schedules", "policies"} : Restart(lost)
ProcessSpec == Init /\ [][InProcess]_vars

(* A handler that neither takes the lock nor removes a target. *)
LEMMA UnlockedHandler ==
  ASSUME TypeInv, ScopeInv, NEW c \in Clients, NEW r, r.pc # "deleted",
         req' = [req EXCEPT ![c] = r], UNCHANGED <<targets, lock, sch>>,
         MemoryScoped'
  PROVE  ScopeInv'
<1>1. \A d \in Clients : req'[d] = IF d = c THEN r ELSE req[d]
  BY DEF TypeInv, RequestsTyped
<1> QED BY <1>1 DEF ScopeInv, LockHeld, RunScoped

LEMMA WriteIsNoDeletion == \A rows : Write(rows).pc # "deleted"
BY DEF Write, Idle

LEMMA HandlersScoped ==
  ASSUME TypeInv, ScopeInv, NEW c \in Clients,
         \/ \E r \in Requests : CreateSchedule(c, r)
         \/ \E s \in Ids, on \in BOOLEAN : SetScheduleEnabled(c, s, on)
         \/ \E t \in Targets : DisableSchedulesForTarget(c, t)
         \/ \E p \in Policies : CheckPolicyUnused(c, p)
         \/ \E t \in Targets : DeleteTarget(c, t)
         \/ RefuseDeletion(c) \/ GiveUpDeletion(c)
         \/ WriteRow(c) \/ WriteRowFails(c) \/ DeletePolicyRow(c) \/ ForgetPolicy(c)
  PROVE  ScopeInv'
<1>0. IsTable(schedules) /\ MemoryScoped
  BY DEF TypeInv, TablesTyped, ScopeInv
<1>1. ASSUME NEW r \in Requests, CreateSchedule(c, r) PROVE ScopeInv'
  <2>1. MemoryScoped'
    BY <1>0, <1>1 DEF CreateSchedule, ValidResources, MemoryScoped, With
  <2> QED BY <1>1, <2>1, WriteIsNoDeletion, UnlockedHandler DEF CreateSchedule
<1>2. ASSUME NEW s \in Ids, NEW on \in BOOLEAN, SetScheduleEnabled(c, s, on) PROVE ScopeInv'
  <2>1. MemoryScoped'
    BY <1>0, <1>2 DEF SetScheduleEnabled, MemoryScoped, IsTable, Row
  <2> QED BY <1>2, <2>1, WriteIsNoDeletion, UnlockedHandler DEF SetScheduleEnabled
<1>3. ASSUME NEW t \in Targets, DisableSchedulesForTarget(c, t) PROVE ScopeInv'
  <2>1. MemoryScoped'
    BY <1>0, <1>3 DEF DisableSchedulesForTarget, MemoryScoped, IsTable, Row
  <2>2. UNCHANGED <<targets, lock, sch>> /\ \E rows : req' = [req EXCEPT ![c] = Write(rows)]
    BY <1>3 DEF DisableSchedulesForTarget
  <2> QED BY <2>1, <2>2, WriteIsNoDeletion, UnlockedHandler
<1>4. ASSUME \/ \E p \in Policies : CheckPolicyUnused(c, p)
             \/ \E t \in Targets : DeleteTarget(c, t)
             \/ RefuseDeletion(c) \/ GiveUpDeletion(c)
             \/ WriteRow(c) \/ WriteRowFails(c) \/ DeletePolicyRow(c) \/ ForgetPolicy(c)
      PROVE  ScopeInv'
  <2>1. UNCHANGED <<schedules, targets, lock, sch>>
    BY <1>4 DEF CheckPolicyUnused, DeleteTarget, RefuseDeletion, GiveUpDeletion, WriteRow, WriteRowFails,
                DeletePolicyRow, ForgetPolicy, memory
  <2>2. PICK r : r.pc # "deleted" /\ req' = [req EXCEPT ![c] = r]
    BY <1>4, WriteIsNoDeletion DEF CheckPolicyUnused, DeleteTarget, RefuseDeletion, GiveUpDeletion,
                                   WriteRow, WriteRowFails, DeletePolicyRow, ForgetPolicy, Idle
  <2> QED BY <1>0, <2>1, <2>2, UnlockedHandler DEF MemoryScoped
<1> QED BY <1>1, <1>2, <1>3, <1>4

LEMMA DeletionsScoped ==
  ASSUME TypeInv, ScopeInv, NEW c \in Clients,
         DeleteTargetRows(c) \/ DeleteTargetMemory(c)
  PROVE  ScopeInv'
<1>1. ASSUME DeleteTargetRows(c) PROVE ScopeInv'
  <2>. PICK t : t = req[c].target
    OBVIOUS
  <2>1. lock = "free" /\ lock' = c /\ UNCHANGED <<schedules, targets, sch>>
        /\ req' = [req EXCEPT ![c] = [pc |-> "deleted", target |-> t]]
    BY <1>1 DEF DeleteTargetRows, memory
  <2>2. \A d \in Clients \ {c} : req'[d] = req[d]
    BY <2>1
  <2>3. sch.pc = "idle" /\ \A d \in Clients : req[d].pc # "deleted"
    BY <2>1, ClientAssumption DEF ScopeInv, LockHeld
  <2> QED BY <2>1, <2>2, <2>3 DEF ScopeInv, LockHeld, MemoryScoped, RunScoped
<1>2. ASSUME DeleteTargetMemory(c) PROVE ScopeInv'
  <2>1. PICK t : /\ targets' = targets \ {t} /\ schedules' = PrunedSchedules(schedules, policies, t)
                 /\ lock' = "free" /\ req' = [req EXCEPT ![c] = Idle] /\ req[c].pc = "deleted"
                 /\ sch' = sch
    BY <1>2 DEF DeleteTargetMemory
  <2>2. lock = c /\ sch.pc = "idle" /\ \A d \in Clients \ {c} : req[d].pc # "deleted"
    BY <2>1, ClientAssumption DEF ScopeInv, LockHeld
  <2>3. req'[c].pc # "deleted" /\ \A d \in Clients \ {c} : req'[d] = req[d]
    BY <2>1 DEF Idle, TypeInv, RequestsTyped
  <2>4. MemoryScoped'
    BY <2>1, PrunedRows DEF TypeInv, TablesTyped, ScopeInv, MemoryScoped
  <2> QED BY <2>1, <2>2, <2>3, <2>4 DEF ScopeInv, LockHeld, RunScoped
<1> QED BY <1>1, <1>2

(* A step of a poll in progress. *)
LEMMA RunKeepsScopes ==
  ASSUME TypeInv, ScopeInv, sch.pc # "idle", sch'.pc # "idle", UNCHANGED <<targets, req, lock>>,
         MemoryScoped', RunScoped'
  PROVE  ScopeInv'
BY DEF ScopeInv, LockHeld

LEMMA SchedulerScoped ==
  ASSUME TypeInv, ScopeInv, SchedulerStep \/ EndBackup
  PROVE  ScopeInv'
<1>0. IsTable(schedules) /\ MemoryScoped /\ RunScoped
  BY DEF TypeInv, TablesTyped, ScopeInv
<1>1. ASSUME Poll PROVE ScopeInv'
  <2>1. PICK due : /\ due \subseteq DOMAIN schedules /\ sch' = Loop(clock, [s \in due |-> schedules[s]])
                   /\ lock = "free" /\ lock' = "scheduler" /\ UNCHANGED <<schedules, targets, req>>
    BY <1>1 DEF Poll, memory
  <2>2. \A c \in Clients : req[c].pc # "deleted"
    BY <2>1, ClientAssumption DEF ScopeInv, LockHeld
  <2> QED BY <1>0, <2>1, <2>2 DEF ScopeInv, LockHeld, MemoryScoped, RunScoped, Loop
<1>2. ASSUME NEW s \in Ids, NextSchedule(s) PROVE ScopeInv'
  <2>1. PICK rest : rest = Without(sch.due, s)
    OBVIOUS
  <2>2. /\ sch.pc = "next" /\ s \in DOMAIN sch.due /\ UNCHANGED <<schedules, targets, req, lock>>
        /\ \A d \in DOMAIN rest : rest[d].targets \subseteq targets
        /\ sch.due[s].targets \subseteq targets
    BY <1>0, <1>2, <2>1 DEF NextSchedule, memory, Without, RunScoped
  <2>3. CASE \E pc \in {"gate", "run"} : sch' = Run(pc, s, sch.due[s], rest, sch.now)
    <3>1. sch'.pc \in {"gate", "run"} /\ sch'.due = rest /\ sch'.row = sch.due[s]
      BY <2>3 DEF Run
    <3> QED BY <1>0, <2>2, <3>1, RunKeepsScopes DEF MemoryScoped, RunScoped
  <2>4. CASE sch' = [sch EXCEPT !.due = rest]
    <3>1. PICK now, due : sch = Loop(now, due)
      BY <2>2 DEF TypeInv, RunTyped
    <3>2. sch'.pc = "next" /\ sch'.due = rest
      BY <2>4, <3>1 DEF Loop
    <3> QED BY <1>0, <2>2, <3>2, RunKeepsScopes DEF MemoryScoped, RunScoped
  <2> QED BY <1>2, <2>1, <2>3, <2>4 DEF NextSchedule, FirstStep
<1>3. ASSUME EndPoll PROVE ScopeInv'
  <2>1. sch.pc = "next" /\ sch' = NoRun /\ lock' = "free" /\ UNCHANGED <<schedules, targets, req>>
    BY <1>3 DEF EndPoll, memory
  <2>2. \A c \in Clients : req[c].pc # "deleted"
    BY <2>1, ClientAssumption DEF ScopeInv, LockHeld
  <2> QED BY <1>0, <2>1, <2>2 DEF ScopeInv, LockHeld, MemoryScoped, RunScoped, NoRun
<1>4. ASSUME NEW t \in Targets, NEW met \in BOOLEAN, DispatchTarget(t, met) PROVE ScopeInv'
  <2>1. /\ sch.pc = "run" /\ UNCHANGED <<schedules, targets, req, lock>>
        /\ \E pc \in {"run", "save"} : sch' = [sch EXCEPT !.pc = pc, !.todo = @ \ {t}, !.target = t]
    BY <1>4 DEF DispatchTarget
  <2>2. PICK r : /\ r = [pc |-> sch.pc, now |-> sch.now, due |-> sch.due, id |-> sch.id, row |-> sch.row,
                         todo |-> sch.todo, target |-> sch.target]
                 /\ sch = r
    BY <2>1 DEF TypeInv, RunTyped
  <2>3. sch'.pc \in {"run", "save"} /\ sch'.due = sch.due /\ sch'.row = sch.row
    BY <2>1, <2>2
  <2> QED BY <1>0, <2>1, <2>3, RunKeepsScopes DEF MemoryScoped, RunScoped
<1>5. ASSUME NEW stored \in BOOLEAN, SaveJob(stored) PROVE ScopeInv'
  <2>1. sch.pc = "save" /\ UNCHANGED <<schedules, targets, req, lock>> /\ sch' = [sch EXCEPT !.pc = "run"]
    BY <1>5 DEF SaveJob, memory
  <2>2. PICK r : /\ r = [pc |-> sch.pc, now |-> sch.now, due |-> sch.due, id |-> sch.id, row |-> sch.row,
                         todo |-> sch.todo, target |-> sch.target]
                 /\ sch = r
    BY <2>1 DEF TypeInv, RunTyped
  <2>3. sch'.pc = "run" /\ sch'.due = sch.due /\ sch'.row = sch.row
    BY <2>1, <2>2
  <2> QED BY <1>0, <2>1, <2>3, RunKeepsScopes DEF MemoryScoped, RunScoped
<1>6. ASSUME Advance PROVE ScopeInv'
  <2>1. /\ sch.pc = "run" /\ UNCHANGED <<targets, req, lock>>
        /\ sch'.pc \in {"next", "persist"} /\ sch'.due = sch.due
    BY <1>6 DEF Advance, Loop
  <2>2. MemoryScoped'
    <3>1. CASE sch.id \in DOMAIN schedules
      <4>1. /\ schedules' = [schedules EXCEPT ![sch.id] = AdvanceAfterRun(schedules[sch.id], sch.now)]
            /\ sch.now \in Int
        BY <1>6, <3>1 DEF Advance, TypeInv, RunTyped
      <4>2. AdvanceAfterRun(schedules[sch.id], sch.now).targets = schedules[sch.id].targets
        BY <1>0, <3>1, <4>1, Advanced DEF IsTable
      <4> QED BY <1>0, <2>1, <3>1, <4>1, <4>2 DEF MemoryScoped
    <3>2. CASE sch.id \notin DOMAIN schedules
      BY <1>0, <1>6, <2>1, <3>2 DEF Advance, MemoryScoped
    <3> QED BY <3>1, <3>2
  <2> QED BY <1>0, <2>1, <2>2, RunKeepsScopes DEF RunScoped
<1>7. ASSUME NEW stored \in BOOLEAN, PersistAdvance(stored) PROVE ScopeInv'
  <2>1. /\ sch.pc = "persist" /\ UNCHANGED <<schedules, targets, req, lock>>
        /\ sch'.pc = "next" /\ sch'.due = sch.due
    BY <1>7 DEF PersistAdvance, Loop, memory
  <2> QED BY <1>0, <2>1, RunKeepsScopes DEF MemoryScoped, RunScoped
<1>8. ASSUME TakeGate \/ EndBackup PROVE ScopeInv'
  <2>1. /\ sch.pc \in {"gate", "backup"} /\ UNCHANGED <<schedules, targets, req, lock>>
        /\ \E pc \in {"backup", "run"} : sch' = [sch EXCEPT !.pc = pc]
    BY <1>8 DEF TakeGate, EndBackup, memory
  <2>2. PICK r : /\ r = [pc |-> sch.pc, now |-> sch.now, due |-> sch.due, id |-> sch.id, row |-> sch.row,
                         todo |-> sch.todo, target |-> sch.target]
                 /\ sch = r
    BY <2>1 DEF TypeInv, RunTyped
  <2>3. sch'.pc \in {"backup", "run"} /\ sch'.due = sch.due /\ sch'.row = sch.row
    BY <2>1, <2>2
  <2> QED BY <1>0, <2>1, <2>3, RunKeepsScopes DEF MemoryScoped, RunScoped
<1> QED BY <1>1, <1>2, <1>3, <1>4, <1>5, <1>6, <1>7, <1>8 DEF SchedulerStep

LEMMA ScopeStep ==
  ASSUME TypeInv, ScopeInv, [InProcess]_vars
  PROVE  ScopeInv'
<1>1. ASSUME \/ \E t \in Targets : Heartbeat(t)
             \/ Tick \/ WorkerHeartbeat \/ (\E j \in jobs : MoveJob(j)) \/ UNCHANGED vars
      PROVE  ScopeInv'
  <2>1. UNCHANGED <<schedules, targets, req, lock, sch>>
    BY <1>1 DEF Heartbeat, Tick, WorkerHeartbeat, MoveJob, vars, memory
  <2> QED BY <2>1 DEF ScopeInv, LockHeld, MemoryScoped, RunScoped
<1> QED BY <1>1, SchedulerScoped, HandlersScoped, DeletionsScoped
           DEF InProcess, Next, RequestStep, HandlerStep

LEMMA TypesOK == TypeInv => TypeOK
<1> SUFFICES ASSUME TypeInv PROVE TypeOK
  OBVIOUS
<1>1. \A c \in Clients : req[c].pc \in {"idle", "write", "lock", "deleted", "unused", "forget"}
  BY DEF TypeInv, RequestsTyped, RequestTyped, Idle
<1> QED BY <1>1 DEF TypeInv, TypeOK, Running, ScalarsTyped, TablesTyped, RunTyped, IsTable, ArePolicies

(* ScopesRegistered, for any number of schedules, targets, policies and    *)
(* concurrent requests, from the start of a process to its end.            *)
THEOREM ScopesStayRegistered == ProcessSpec => []ScopesRegistered
<1>1. Init => TypeInv /\ ScopeInv
  <2>1. Init => ScopeInv
    BY DEF Init, NoRun, Idle, None, ScopeInv, LockHeld, MemoryScoped, RunScoped
  <2> QED BY <2>1, InitTyped
<1>2. TypeInv /\ ScopeInv /\ [InProcess]_vars => TypeInv' /\ ScopeInv'
  BY NextTyped, ScopeStep DEF InProcess
<1>3. TypeInv /\ ScopeInv => ScopesRegistered
  BY TypesOK DEF ScopeInv, MemoryScoped, RunScoped, ScopesRegistered, Running
<1> QED BY <1>1, <1>2, <1>3, PTL DEF ProcessSpec
----------------------------------------------------------------------------
(* The events of one job, JobEvents.  The number of an event is the length  *)
(* its writer has read plus one, so NumbersDense needs that nobody has read *)
(* more than there is, and StatusTold needs what every report still has to  *)
(* write: the list a final report holds ends with its status, and the       *)
(* failure comes before it or is in the log already.                        *)

\* Places of the runner: between the two statements of an event, and at rest;
\* what a final report goes on to; the statuses it ends in.
Reporting == {"read", "write"}
Resting == {"idle", "down"}
Ending == {"idle", "recovered"}
Finished == {"succeeded", "failed", "reconcile_required"}

\* The events that are still to be written of a final report of s.
LastEvents(s) == {<<StatusChanged(s)>>, <<Other("task"), StatusChanged(s)>>, <<Failed("worker"), StatusChanged(s)>>,
                  <<Other("reconcile"), StatusChanged(s)>>, <<Failed("worker"), Other("reconcile"), StatusChanged(s)>>}
\* The events of the other reports, of which each has one.
StepEvents == {<<StatusChanged("planned")>>, <<StatusChanged("applying")>>, <<Other("log")>>}
EventLists == {<<>>} \cup StepEvents \cup UNION {LastEvents(s) : s \in Finished}
RunnerState == [at : {"down", "idle", "checked", "planned", "applying", "ok", "bad", "read", "write"},
                status : Status \cup {"none"}, events : EventLists,
                read : Nat, then : {"none", "planned", "applying", "ok", "bad", "idle", "recovered"}]

\* Event n shows a status; the last one shown is s; a failure is shown.
Shows(n) == log[n].kind \in {"queued", "status"}
Tells(s) == \E n \in DOMAIN log : Shows(n) /\ log[n].status = s /\ \A k \in DOMAIN log : k > n => ~Shows(k)
FailureTold == \E n \in DOMAIN log : log[n].kind = "failed"

(* The inductive invariant: types and numbers without a hole; what the      *)
(* creation and the events page have seen; what a report still owes the log *)
(* and what a finished one has told.                                        *)
LogTyped ==
  /\ jobRow \in Status \cup {"none"} /\ applies \in BOOLEAN /\ cut \in BOOLEAN
  /\ creator \in {"save", "append", "created", "error"}
  /\ DOMAIN log = 1 .. Length /\ Length \in Nat /\ \A n \in DOMAIN log : log[n] \in JobEvent
RunnerTyped ==
  /\ runner \in RunnerState
  /\ runner.read <= Length
  /\ viewer \in [Viewers -> [at : {"away", "row", "append"}, read : Nat]]
  /\ \A v \in Viewers : viewer[v].read <= Length
CreatorSound ==
  /\ creator = "save" => jobRow = "none"
  /\ creator = "created" => 1 \in DOMAIN log /\ log[1] = Queued
PagesSound ==
  /\ \A v \in Viewers : viewer[v].at # "away" => \A k \in 1 .. viewer[v].read : log[k].kind # "failed"
  /\ \A n \in DOMAIN log : log[n] = Failed("page") => \A k \in 1 .. n - 1 : log[k].kind # "failed"
RunnerSound ==
  /\ runner.at \in Resting => runner.then = "none"
  /\ runner.at \in Reporting <=> runner.then # "none"
  /\ runner.at \notin Resting /\ runner.then \notin Ending => jobRow \in Executing
  /\ runner.then \in {"planned", "applying", "ok", "bad"} => runner.events \in StepEvents
  /\ runner.then \in Ending =>
       /\ runner.status \in Finished /\ jobRow \in {runner.status, "queued"}
       /\ runner.events \in LastEvents(runner.status)
       /\ runner.status = "failed" => FailureTold \/ runner.events = <<Failed("worker"), StatusChanged("failed")>>
ToldSound == runner.at \in Resting /\ jobRow \in Finished /\ ~cut => Tells(jobRow) /\ (jobRow = "failed" => FailureTold)
EventsInv == LogTyped /\ RunnerTyped /\ CreatorSound /\ PagesSound /\ RunnerSound /\ ToldSound

\* The log gets e as its event number L + 1.
Wrote(L, e) ==
  /\ DOMAIN log = 1 .. L /\ Length = L /\ DOMAIN log' = 1 .. (L + 1) /\ Length' = L + 1
  /\ log'[L + 1] = e /\ \A k \in 1 .. L : log'[k] = log[k]

LEMMA EventKinds ==
  /\ Queued.kind = "queued" /\ Queued.status = "queued" /\ Queued \in JobEvent
  /\ \A s \in Status : StatusChanged(s).kind = "status" /\ StatusChanged(s).status = s /\ StatusChanged(s) \in JobEvent
  /\ \A by \in {"worker", "page"} : Failed(by).kind = "failed" /\ Failed(by).status = by /\ Failed(by) \in JobEvent
  /\ \A kind \in {"log", "task", "reconcile"} : Other(kind).kind = kind /\ Other(kind) \in JobEvent
BY DEF Queued, StatusChanged, Failed, Other, JobEvent

LEMMA Appended ==
  ASSUME LogTyped, NEW n \in Nat \ {0}, n <= Length + 1, NEW e, AppendEvent(n, e)
  PROVE  n = Length + 1 /\ Wrote(Length, e)
<1>1. PICK L : L = Length
  OBVIOUS
<1>2. L \in Nat /\ DOMAIN log = 1 .. L
  BY <1>1 DEF LogTyped
<1>3. n = L + 1
  BY <1>1, <1>2 DEF AppendEvent, Taken
<1>4. DOMAIN log \cup {n} = 1 .. (L + 1)
  BY <1>2, <1>3
<1>5. log' = [k \in 1 .. (L + 1) |-> IF k = n THEN e ELSE log[k]]
  BY <1>4 DEF AppendEvent, Insert
<1>6. DOMAIN log' = 1 .. (L + 1) /\ log'[L + 1] = e /\ \A k \in 1 .. L : log'[k] = log[k]
  BY <1>2, <1>3, <1>5
<1>7. Length' = L + 1
  <2>1. Length' = Cardinality(1 .. (L + 1))
    BY <1>6 DEF Length
  <2>2. Cardinality(1 .. (L + 1)) = L + 1
    BY <1>2, FS_Interval
  <2> QED BY <2>1, <2>2
<1> QED BY <1>1, <1>2, <1>3, <1>6, <1>7 DEF Wrote

LEMMA NextIsLength ==
  ASSUME LogTyped
  PROVE  NextNumber = Length + 1 /\ NextNumber \in Nat \ {0}
<1>1. PICK L : L = Length
  OBVIOUS
<1>2. L \in Nat /\ DOMAIN log = 1 .. L
  BY <1>1 DEF LogTyped
<1>3. \E m \in {0} \cup DOMAIN log : \A k \in DOMAIN log : k <= m
  <2>1. L \in {0} \cup DOMAIN log /\ \A k \in DOMAIN log : k <= L
    BY <1>2
  <2> QED BY <2>1
<1>4. MaxNumber \in {0} \cup DOMAIN log /\ \A k \in DOMAIN log : k <= MaxNumber
  BY <1>3 DEF MaxNumber
<1>5. MaxNumber = L
  BY <1>2, <1>4
<1> QED BY <1>1, <1>2, <1>5 DEF NextNumber

\* What the log told before it got an event.
LEMMA WroteTells ==
  ASSUME NEW L \in Nat, NEW e, Wrote(L, e)
  PROVE  /\ FailureTold => FailureTold'
         /\ e.kind = "failed" => FailureTold'
         /\ \A s \in Finished : e = StatusChanged(s) => Tells(s)'
         /\ \A s \in Finished : e.kind \notin {"queued", "status"} /\ Tells(s) => Tells(s)'
<1>1. DOMAIN log = 1 .. L /\ DOMAIN log' = 1 .. (L + 1) /\ log'[L + 1] = e /\ \A k \in 1 .. L : log'[k] = log[k] /\ k \in 1 .. (L + 1)
  BY DEF Wrote
<1>2. FailureTold => FailureTold'
  BY <1>1 DEF FailureTold
<1>3. L + 1 \in DOMAIN log'
  BY <1>1
<1>4. e.kind = "failed" => FailureTold'
  BY <1>1, <1>3 DEF FailureTold
<1>5. ASSUME NEW s \in Finished, e = StatusChanged(s) PROVE Tells(s)'
  <2>1. log'[L + 1].kind = "status" /\ log'[L + 1].status = s
    BY <1>1, <1>5, EventKinds DEF Finished, Status
  <2>2. \A k \in DOMAIN log' : ~(k > L + 1)
    BY <1>1
  <2> QED BY <1>3, <2>1, <2>2 DEF Tells, Shows
<1>6. ASSUME NEW s \in Finished, e.kind \notin {"queued", "status"}, Tells(s) PROVE Tells(s)'
  <2>1. PICK n \in DOMAIN log : Shows(n) /\ log[n].status = s /\ \A k \in DOMAIN log : k > n => ~Shows(k)
    BY <1>6 DEF Tells
  <2>2. n \in DOMAIN log' /\ log'[n] = log[n] /\ n \in 1 .. L
    BY <1>1, <2>1
  <2>3. ASSUME NEW k \in DOMAIN log', k > n PROVE log'[k].kind \notin {"queued", "status"}
    <3>1. CASE k = L + 1
      BY <1>1, <1>6, <3>1
    <3>2. CASE k # L + 1
      BY <1>1, <2>1, <2>3, <3>2 DEF Shows
    <3> QED BY <3>1, <3>2
  <2> QED BY <2>1, <2>2, <2>3 DEF Tells, Shows
<1> QED BY <1>2, <1>4, <1>5, <1>6

\* A log that got an event keeps its type, what was read of it is still there.
LEMMA WroteTyped ==
  ASSUME LogTyped, NEW L \in Nat, NEW e \in JobEvent, Wrote(L, e),
         jobRow' \in Status \cup {"none"}, applies' \in BOOLEAN, cut' \in BOOLEAN,
         creator' \in {"save", "append", "created", "error"}
  PROVE  LogTyped' /\ (creator' = creator /\ CreatorSound /\ (creator = "save" => jobRow' = jobRow) => CreatorSound')
<1>1. /\ DOMAIN log = 1 .. L /\ DOMAIN log' = 1 .. (L + 1) /\ Length' = L + 1 /\ log'[L + 1] = e
      /\ \A k \in 1 .. L : log'[k] = log[k]
  BY DEF Wrote
<1>2. ASSUME NEW n \in DOMAIN log' PROVE log'[n] \in JobEvent
  BY <1>1 DEF LogTyped
<1>3. LogTyped'
  BY <1>1, <1>2 DEF LogTyped
<1>4. creator' = creator /\ CreatorSound /\ (creator = "save" => jobRow' = jobRow) => CreatorSound'
  BY <1>1 DEF CreatorSound
<1> QED BY <1>3, <1>4

LEMMA WrotePages ==
  ASSUME LogTyped, RunnerTyped, PagesSound, NEW L \in Nat, NEW e \in JobEvent, Wrote(L, e), e # Failed("page"), UNCHANGED viewer
  PROVE  PagesSound'
<1>1. /\ DOMAIN log = 1 .. L /\ Length = L /\ DOMAIN log' = 1 .. (L + 1) /\ log'[L + 1] = e
      /\ \A k \in 1 .. L : log'[k] = log[k]
  BY DEF Wrote
<1>2. ASSUME NEW v \in Viewers, viewer[v].at # "away", NEW k \in 1 .. viewer[v].read PROVE log'[k].kind # "failed"
  <2>1. viewer[v].read \in Nat /\ viewer[v].read <= L /\ log[k].kind # "failed"
    BY <1>1, <1>2 DEF RunnerTyped, PagesSound
  <2> QED BY <1>1, <2>1
<1>3. ASSUME NEW n \in DOMAIN log', log'[n] = Failed("page"), NEW k \in 1 .. n - 1 PROVE log'[k].kind # "failed"
  <2>1. n \in 1 .. L /\ log[n] = Failed("page") /\ k \in 1 .. L
    BY <1>1, <1>3
  <2> QED BY <1>1, <2>1 DEF PagesSound
<1> QED BY <1>2, <1>3 DEF PagesSound

LEMMA LastEventsEnd ==
  ASSUME NEW s \in Finished, NEW es \in LastEvents(s)
  PROVE  /\ Head(es) \in JobEvent /\ Head(es) # Failed("page")
         /\ (Tail(es) = <<>> => Head(es) = StatusChanged(s)) /\ (Tail(es) # <<>> => Tail(es) \in LastEvents(s))
         /\ (es = <<Failed("worker"), StatusChanged("failed")>> => Head(es).kind = "failed" /\ Tail(es) # <<>>)
<1>1. PICK a, b, c, d : a = StatusChanged(s) /\ b = Other("task") /\ c = Failed("worker") /\ d = Other("reconcile")
  OBVIOUS
<1>2. {a, b, c, d} \subseteq JobEvent /\ c.kind = "failed"
  BY <1>1, EventKinds DEF Finished, Status
<1>3. a # Failed("page") /\ b # Failed("page") /\ c # Failed("page") /\ d # Failed("page")
  BY <1>1 DEF StatusChanged, Other, Failed
<1>4. es \in {<<a>>, <<b, a>>, <<c, a>>, <<d, a>>, <<c, d, a>>} /\ LastEvents(s) = {<<a>>, <<b, a>>, <<c, a>>, <<d, a>>, <<c, d, a>>}
  BY <1>1 DEF LastEvents
<1>5. CASE es = <<a>>
  <2>1. Head(es) = a /\ Tail(es) = <<>>
    BY <1>5
  <2>2. es # <<Failed("worker"), StatusChanged("failed")>>
    BY <1>5
  <2> QED BY <1>1, <1>2, <1>3, <2>1, <2>2
<1>6. ASSUME NEW x \in {b, c, d}, es = <<x, a>>
      PROVE  Head(es) = x /\ Tail(es) = <<a>> /\ Tail(es) # <<>>
  BY <1>6
<1>7. CASE es = <<c, d, a>>
  <2>1. Head(es) = c /\ Tail(es) = <<d, a>> /\ Tail(es) # <<>>
    BY <1>7
  <2> QED BY <1>2, <1>3, <1>4, <2>1
<1>8. CASE es = <<b, a>>
  <2>1. es # <<Failed("worker"), StatusChanged("failed")>>
    BY <1>1, <1>8 DEF Other, Failed
  <2> QED BY <1>2, <1>3, <1>4, <1>6, <1>8, <2>1
<1>9. CASE es = <<c, a>>
  BY <1>2, <1>3, <1>4, <1>6, <1>9
<1>10. CASE es = <<d, a>>
  <2>1. es # <<Failed("worker"), StatusChanged("failed")>>
    BY <1>1, <1>10 DEF Other, Failed
  <2> QED BY <1>2, <1>3, <1>4, <1>6, <1>10, <2>1
<1> QED BY <1>4, <1>5, <1>7, <1>8, <1>9, <1>10

LEMMA StepEventsEnd ==
  ASSUME NEW es \in StepEvents
  PROVE  Head(es) \in JobEvent /\ Head(es) # Failed("page") /\ Tail(es) = <<>>
<1>1. PICK a, b, c : a = StatusChanged("planned") /\ b = StatusChanged("applying") /\ c = Other("log")
  OBVIOUS
<1>2. {a, b, c} \subseteq JobEvent
  BY <1>1, EventKinds DEF Status
<1>3. a # Failed("page") /\ b # Failed("page") /\ c # Failed("page")
  BY <1>1 DEF StatusChanged, Other, Failed
<1>4. \E x \in {a, b, c} : es = <<x>>
  BY <1>1 DEF StepEvents
<1> QED BY <1>2, <1>3, <1>4

LEMMA EventParts ==
  ASSUME EventsInv
  PROVE  LogTyped /\ RunnerTyped /\ CreatorSound /\ PagesSound /\ RunnerSound /\ ToldSound /\ Length \in Nat
BY DEF EventsInv, LogTyped

LEMMA SaveJobRowKeeps ==
  ASSUME EventsInv, SaveJobRow
  PROVE  EventsInv'
<1> USE EventParts
<1>a. UNCHANGED <<applies, log, runner, viewer, cut>> /\ creator = "save" /\ jobRow = "none"
  BY DEF SaveJobRow, CreatorSound
<1>b. (jobRow' = "queued" /\ creator' = "append") \/ (jobRow' = jobRow /\ creator' = "error")
  BY DEF SaveJobRow

<1>l. Length' = Length /\ (FailureTold' <=> FailureTold) /\ \A s : Tells(s)' <=> Tells(s)
  BY <1>a DEF Length, FailureTold, Tells, Shows
<1>1. LogTyped'
  BY <1>a, <1>b, <1>l DEF LogTyped, Status
<1>2. RunnerTyped'
  BY <1>a, <1>b, <1>l DEF RunnerTyped
<1>3. CreatorSound'
  BY <1>a, <1>b, <1>l DEF CreatorSound
<1>4. PagesSound'
  BY <1>a, <1>b, <1>l DEF PagesSound
<1>5. RunnerSound'
  BY <1>a, <1>b, <1>l DEF RunnerSound, Executing, Finished, Resting
<1>6. ToldSound'
  BY <1>a, <1>b, <1>l DEF ToldSound, Finished
<1> QED BY <1>1, <1>2, <1>3, <1>4, <1>5, <1>6 DEF EventsInv

LEMMA AppendQueuedKeeps ==
  ASSUME EventsInv, AppendQueued
  PROVE  EventsInv'
<1> USE EventParts
<1>a. UNCHANGED <<jobRow, applies, runner, viewer, cut>> /\ creator = "append"
  BY DEF AppendQueued
<1>b. CASE UNCHANGED log /\ creator' = "error"
  <2>l. Length' = Length /\ (FailureTold' <=> FailureTold) /\ \A s : Tells(s)' <=> Tells(s)
    BY <1>b DEF Length, FailureTold, Tells, Shows
  <2>1. LogTyped' /\ RunnerTyped' /\ CreatorSound'
    BY <1>a, <1>b, <2>l DEF LogTyped, RunnerTyped, CreatorSound
  <2>2. PagesSound' /\ RunnerSound' /\ ToldSound'
    BY <1>a, <1>b, <2>l DEF PagesSound, RunnerSound, ToldSound
  <2> QED BY <2>1, <2>2 DEF EventsInv
<1>c. CASE AppendEvent(1, Queued) /\ creator' = "created"
  <2>1. PICK L \in Nat : L = Length
    OBVIOUS
  <2>2. Wrote(L, Queued) /\ L + 1 = 1
    BY <1>c, <2>1, Appended
  <2>3. LogTyped' /\ Length' = L + 1
    BY <1>a, <1>c, <2>2, WroteTyped, EventKinds DEF LogTyped, Wrote
  <2>4. Queued # Failed("page")
    BY DEF Queued, Failed
  <2>5. PagesSound'
    BY <1>a, <2>2, <2>4, WrotePages, EventKinds
  <2>6. CreatorSound'
    BY <1>c, <2>2 DEF CreatorSound, Wrote
  <2>7. RunnerTyped'
    BY <1>a, <2>1, <2>3 DEF RunnerTyped, RunnerState
  <2>8. ~FailureTold /\ \A s : ~Tells(s)
    BY <2>2 DEF Wrote, FailureTold, Tells
  <2>9. RunnerSound' /\ ToldSound'
    BY <1>a, <2>8 DEF RunnerSound, ToldSound
  <2> QED BY <2>3, <2>5, <2>6, <2>7, <2>9 DEF EventsInv
<1> QED BY <1>b, <1>c DEF AppendQueued

\* A step that leaves the log alone leaves alone what it tells.
LEMMA LogStays ==
  ASSUME UNCHANGED log
  PROVE  Length' = Length /\ (FailureTold' <=> FailureTold) /\ \A s : Tells(s)' <=> Tells(s)
BY DEF Length, FailureTold, Tells, Shows

LEMMA ViewerMoves ==
  ASSUME EventsInv, NEW v \in Viewers, UNCHANGED <<jobRow, applies, log, creator, runner, cut>>,
         NEW c \in [at : {"away", "row", "append"}, read : Nat], viewer' = [viewer EXCEPT ![v] = c],
         c.read <= Length, c.at # "away" => \A k \in 1 .. c.read : log[k].kind # "failed"
  PROVE  EventsInv'
<1> USE EventParts
<1>1. Length' = Length /\ (FailureTold' <=> FailureTold) /\ \A s : Tells(s)' <=> Tells(s)
  BY LogStays
<1>2. LogTyped' /\ CreatorSound'
  BY <1>1 DEF LogTyped, CreatorSound
<1>3. RunnerTyped'
  BY <1>1 DEF RunnerTyped
<1>4. \A w \in Viewers : viewer'[w] = IF w = v THEN c ELSE viewer[w]
  BY DEF RunnerTyped
<1>5. PagesSound'
  BY <1>4 DEF PagesSound
<1>6. RunnerSound' /\ ToldSound'
  BY <1>1 DEF RunnerSound, ToldSound
<1> QED BY <1>2, <1>3, <1>5, <1>6 DEF EventsInv

LEMMA ReadEventsKeeps ==
  ASSUME EventsInv, NEW v \in Viewers, ReadEvents(v)
  PROVE  EventsInv'
<1> USE EventParts
<1>1. UNCHANGED <<jobRow, applies, log, creator, runner, cut>>
  BY DEF ReadEvents
<1>2. CASE FailureTold
  <2>1. UNCHANGED viewer
    BY <1>2 DEF ReadEvents, FailureTold
  <2>2. viewer' = [viewer EXCEPT ![v] = viewer[v]] /\ viewer[v] \in [at : {"away", "row", "append"}, read : Nat]
    BY <2>1 DEF RunnerTyped
  <2>3. viewer[v].read <= Length /\ (viewer[v].at # "away" => \A k \in 1 .. viewer[v].read : log[k].kind # "failed")
    BY DEF RunnerTyped, PagesSound
  <2> QED BY <1>1, <2>2, <2>3, ViewerMoves
<1>3. CASE ~FailureTold
  <2>1. PICK c : c = [at |-> "row", read |-> Length]
    OBVIOUS
  <2>2. viewer' = [viewer EXCEPT ![v] = c] /\ c.read = Length /\ c \in [at : {"away", "row", "append"}, read : Nat]
    BY <1>3, <2>1 DEF ReadEvents, FailureTold
  <2>3. \A k \in 1 .. c.read : log[k].kind # "failed"
    BY <1>3, <2>2 DEF FailureTold, LogTyped
  <2>4. c.read <= Length
    BY <2>2
  <2> QED BY <1>1, <2>2, <2>3, <2>4, ViewerMoves
<1> QED BY <1>2, <1>3

LEMMA FindJobKeeps ==
  ASSUME EventsInv, NEW v \in Viewers, FindJob(v)
  PROVE  EventsInv'
<1> USE EventParts
<1>1. UNCHANGED <<jobRow, applies, log, creator, runner, cut>> /\ viewer[v].at = "row"
  BY DEF FindJob
<1>2. viewer[v] \in [at : {"away", "row", "append"}, read : Nat] /\ viewer[v].read <= Length
      /\ \A k \in 1 .. viewer[v].read : log[k].kind # "failed"
  BY <1>1 DEF RunnerTyped, PagesSound
<1>3. PICK c : c = IF jobRow = "failed" THEN [viewer[v] EXCEPT !.at = "append"] ELSE Away
  OBVIOUS
<1>4. viewer' = [viewer EXCEPT ![v] = c]
  BY <1>3 DEF FindJob
<1>5. c \in [at : {"away", "row", "append"}, read : Nat] /\ c.read <= Length /\ (c.at # "away" => c.read = viewer[v].read)
  BY <1>2, <1>3 DEF Away
<1> QED BY <1>1, <1>2, <1>4, <1>5, ViewerMoves

\* The runner rests, or reports: what it holds does not depend on the log.
LEMMA RunnerUntouched ==
  ASSUME EventsInv, NEW L \in Nat, NEW e \in JobEvent, Wrote(L, e), UNCHANGED runner,
         viewer' \in [Viewers -> [at : {"away", "row", "append"}, read : Nat]], \A w \in Viewers : viewer'[w].read <= L
  PROVE  RunnerTyped' /\ (jobRow' = jobRow => RunnerSound')
<1> USE EventParts
<1>1. Length = L /\ Length' = L + 1
  BY DEF Wrote
<1>2. RunnerTyped'
  <2>1. runner'.read <= Length' /\ \A w \in Viewers : viewer'[w].read <= Length'
    <3>1. runner.read \in Nat /\ runner.read <= L
      BY <1>1 DEF RunnerTyped, RunnerState
    <3>2. ASSUME NEW w \in Viewers PROVE viewer'[w].read <= L + 1
      BY <3>2
    <3> QED BY <1>1, <3>1, <3>2
  <2> QED BY <2>1 DEF RunnerTyped
<1>3. jobRow' = jobRow => RunnerSound'
  BY WroteTells DEF RunnerSound
<1> QED BY <1>2, <1>3

LEMMA AppendFailedKeeps ==
  ASSUME EventsInv, NEW v \in Viewers, AppendFailed(v)
  PROVE  EventsInv'
<1> USE EventParts
<1>1. /\ UNCHANGED <<jobRow, applies, creator, runner, cut>> /\ viewer[v].at = "append" /\ viewer' = [viewer EXCEPT ![v] = Away]
      /\ AppendEvent(viewer[v].read + 1, Failed("page")) \/ UNCHANGED log
  BY DEF AppendFailed, NumberAfter
<1>2. viewer[v].read \in Nat /\ viewer[v].read <= Length /\ \A k \in 1 .. viewer[v].read : log[k].kind # "failed"
  BY <1>1 DEF RunnerTyped, PagesSound
<1>3. Away \in [at : {"away", "row", "append"}, read : Nat] /\ Away.read = 0 /\ Away.at = "away"
  BY DEF Away
<1>4. CASE UNCHANGED log
  <2>1. Away.read <= Length
    BY <1>3
  <2> QED BY <1>1, <1>3, <1>4, <2>1, ViewerMoves
<1>5. CASE AppendEvent(viewer[v].read + 1, Failed("page"))
  <2>1. PICK L \in Nat : L = Length
    OBVIOUS
  <2>2. viewer[v].read + 1 \in Nat \ {0} /\ viewer[v].read + 1 <= Length + 1
    BY <1>2
  <2>3. viewer[v].read + 1 = L + 1 /\ Wrote(L, Failed("page"))
    BY <1>5, <2>1, <2>2, Appended
  <2>4. /\ DOMAIN log' = 1 .. (L + 1) /\ DOMAIN log = 1 .. L /\ log'[L + 1] = Failed("page")
        /\ \A k \in 1 .. L : log'[k] = log[k] /\ log[k].kind # "failed"
    BY <1>2, <2>3 DEF Wrote
  <2>5. PICK e \in JobEvent : e = Failed("page") /\ e.kind = "failed"
    BY EventKinds
  <2>6. LogTyped' /\ CreatorSound'
    BY <1>1, <2>3, <2>5, WroteTyped DEF LogTyped
  <2>7. \A w \in Viewers : viewer'[w] = IF w = v THEN Away ELSE viewer[w]
    BY <1>1 DEF RunnerTyped
  <2>8. viewer' \in [Viewers -> [at : {"away", "row", "append"}, read : Nat]] /\ \A w \in Viewers : viewer'[w].read <= L
    BY <1>1, <1>3, <2>1, <2>7 DEF RunnerTyped
  <2>9. RunnerTyped' /\ RunnerSound'
    BY <1>1, <2>3, <2>5, <2>8, RunnerUntouched
  <2>10. ToldSound'
    BY <1>1, <2>3, <2>5, WroteTells DEF ToldSound
  <2>11. PagesSound'
    <3>1. ASSUME NEW w \in Viewers, viewer'[w].at # "away", NEW k \in 1 .. viewer'[w].read PROVE log'[k].kind # "failed"
      <4>1. viewer'[w].read \in Nat /\ viewer'[w].read <= L
        BY <2>8
      <4> QED BY <2>4, <4>1
    <3>2. ASSUME NEW n \in DOMAIN log', NEW k \in 1 .. n - 1 PROVE log'[k].kind # "failed"
      BY <2>4, <3>2
    <3> QED BY <3>1, <3>2 DEF PagesSound
  <2> QED BY <2>6, <2>9, <2>10, <2>11 DEF EventsInv
<1> QED BY <1>1, <1>4, <1>5

LEMMA RetryFailedKeeps ==
  ASSUME EventsInv, RetryFailed
  PROVE  EventsInv'
<1> USE EventParts
<1>1. jobRow = "failed" /\ jobRow' = "queued" /\ AppendEvent(NextNumber, StatusChanged("queued")) /\ UNCHANGED <<applies, creator, runner, viewer, cut>>
  BY DEF RetryFailed
<1>2. PICK L \in Nat : L = Length
  OBVIOUS
<1>3. PICK e \in JobEvent : e = StatusChanged("queued") /\ e # Failed("page")
  BY EventKinds DEF Status, StatusChanged, Failed
<1>4. Wrote(L, e)
  BY <1>1, <1>2, <1>3, Appended, NextIsLength
<1>5. LogTyped' /\ CreatorSound'
  BY <1>1, <1>4, WroteTyped DEF LogTyped, Status, CreatorSound
<1>6. PagesSound'
  BY <1>1, <1>3, <1>4, WrotePages
<1>7. viewer' \in [Viewers -> [at : {"away", "row", "append"}, read : Nat]] /\ \A w \in Viewers : viewer'[w].read <= L
  BY <1>1, <1>2 DEF RunnerTyped
<1>8. RunnerTyped'
  BY <1>1, <1>4, <1>7, RunnerUntouched
<1>9. RunnerSound'
  BY <1>1, <1>4, WroteTells DEF RunnerSound, Executing
<1>10. ToldSound'
  BY <1>1 DEF ToldSound, Finished
<1> QED BY <1>5, <1>6, <1>8, <1>9, <1>10 DEF EventsInv

\* The runner takes a step without writing an event.
LEMMA RunnerMoves ==
  ASSUME EventsInv, UNCHANGED <<applies, log, creator, viewer>>, jobRow' \in Status \cup {"none"},
         jobRow = "none" => jobRow' = jobRow, cut' \in BOOLEAN, runner' \in RunnerState, runner'.read <= Length,
         RunnerSound', ToldSound'
  PROVE  EventsInv'
<1> USE EventParts
<1>1. Length' = Length
  BY LogStays
<1>2. LogTyped'
  BY <1>1 DEF LogTyped
<1>3. CreatorSound'
  BY DEF CreatorSound
<1>4. RunnerTyped'
  BY <1>1 DEF RunnerTyped, RunnerState
<1>5. PagesSound'
  BY DEF PagesSound
<1> QED BY <1>2, <1>3, <1>4, <1>5 DEF EventsInv

LEMMA RunnerIs ==
  ASSUME EventsInv
  PROVE  /\ runner \in RunnerState /\ runner.read \in Nat /\ runner.read <= Length
         /\ jobRow \in Executing => jobRow # "none" /\ jobRow \notin Finished
BY EventParts DEF RunnerTyped, RunnerState, Executing, Finished

\* A report of s, with the events it still has to write.
LEMMA ReportKeeps ==
  ASSUME EventsInv, jobRow \in Executing, cut' \in BOOLEAN, NEW s \in Status, NEW es \in EventLists, NEW then, Report(s, es, then),
         \/ s \in Executing /\ es \in StepEvents /\ then \in {"planned", "applying", "ok", "bad"}
         \/ /\ s \in Finished /\ es \in LastEvents(s) /\ then \in Ending
            /\ s = "failed" => es = <<Failed("worker"), StatusChanged("failed")>>
  PROVE  EventsInv'
<1> USE EventParts
<1>1. jobRow' = s /\ UNCHANGED <<applies, log, creator, viewer>>
  BY DEF Report
<1>2. then \in {"planned", "applying", "ok", "bad", "idle", "recovered"}
  BY DEF Ending
<1>3. runner' = [runner EXCEPT !.at = "read", !.status = s, !.events = es, !.then = then]
  BY DEF Report
<1>4. runner' \in RunnerState /\ runner'.at = "read" /\ runner'.status = s /\ runner'.events = es /\ runner'.then = then
      /\ runner'.read = runner.read
  BY <1>2, <1>3, RunnerIs DEF RunnerState
<1>5. RunnerSound'
  BY <1>1, <1>2, <1>4 DEF RunnerSound, Resting, Reporting, Ending
<1>6. ToldSound'
  BY <1>4 DEF ToldSound, Resting
<1> QED BY <1>1, <1>4, <1>5, <1>6, RunnerMoves, RunnerIs

LEMMA ClaimRowKeeps ==
  ASSUME EventsInv, ClaimRow
  PROVE  EventsInv'
<1> USE EventParts
<1>1. /\ runner = Waiting /\ jobRow = "queued" /\ jobRow' = "checking" /\ AppendEvent(NextNumber, StatusChanged("checking"))
      /\ cut' = FALSE /\ UNCHANGED <<applies, creator, viewer>>
      /\ runner' = [runner EXCEPT !.at = "checked", !.status = "checking"]
  BY DEF ClaimRow
<1>2. PICK L \in Nat : L = Length
  OBVIOUS
<1>3. PICK e \in JobEvent : e = StatusChanged("checking") /\ e # Failed("page")
  BY EventKinds DEF Status, StatusChanged, Failed
<1>4. Wrote(L, e)
  BY <1>1, <1>2, <1>3, Appended, NextIsLength
<1>5. LogTyped' /\ CreatorSound'
  BY <1>1, <1>4, WroteTyped DEF LogTyped, Status, CreatorSound
<1>6. PagesSound'
  BY <1>1, <1>3, <1>4, WrotePages
<1>7. runner' \in RunnerState /\ runner'.at = "checked" /\ runner'.then = "none" /\ runner'.read = 0
  BY <1>1 DEF Waiting, Asleep, RunnerState, EventLists, Status
<1>8. RunnerTyped'
  <2>1. Length' = L + 1 /\ \A w \in Viewers : viewer[w].read \in Nat /\ viewer[w].read <= L
    BY <1>2, <1>4 DEF RunnerTyped, Wrote
  <2>2. \A w \in Viewers : viewer'[w].read <= Length'
    BY <1>1, <2>1
  <2> QED BY <1>1, <1>7, <2>1, <2>2 DEF RunnerTyped, RunnerState
<1>9. RunnerSound'
  BY <1>1, <1>7 DEF RunnerSound, Executing, Resting, Reporting, Ending
<1>10. ToldSound'
  BY <1>7 DEF ToldSound, Resting
<1> QED BY <1>5, <1>6, <1>8, <1>9, <1>10 DEF EventsInv

LEMMA PlanKeeps ==
  ASSUME EventsInv, Plan \/ Apply
  PROVE  EventsInv'
<1>1. runner.at \in {"checked", "planned"} /\ UNCHANGED cut
  BY DEF Plan, Apply
<1>2. jobRow \in Executing
  BY <1>1, EventParts DEF RunnerSound, Resting, Reporting, Ending
<1>3. PICK s \in {"planned", "applying"} : Report(s, <<StatusChanged(s)>>, s)
  BY DEF Plan, Apply
<1>4. PICK es : es = <<StatusChanged(s)>>
  OBVIOUS
<1>5. es \in StepEvents /\ es \in EventLists /\ s \in Status /\ s \in Executing
  BY <1>4 DEF StepEvents, EventLists, Status, Executing
<1> QED BY <1>1, <1>2, <1>3, <1>4, <1>5, ReportKeeps, EventParts DEF LogTyped

LEMMA PlaybookEndsKeeps ==
  ASSUME EventsInv, PlaybookEnds \/ GivesUp
  PROVE  EventsInv'
<1> USE EventParts
<1>1. runner.at \in {"checked", "planned", "applying"} /\ UNCHANGED <<jobRow, applies, log, creator, viewer, cut>>
  BY DEF PlaybookEnds, GivesUp
<1>2. jobRow \in Executing /\ runner.then = "none"
  BY <1>1 DEF RunnerSound, Resting, Reporting, Ending
<1>3. CASE GivesUp
  <2>1. runner' \in RunnerState /\ runner'.at = "bad" /\ runner'.then = "none" /\ runner'.read = runner.read
    BY <1>2, <1>3, RunnerIs DEF GivesUp, RunnerState
  <2>2. RunnerSound' /\ ToldSound'
    BY <1>1, <1>2, <2>1 DEF RunnerSound, ToldSound, Resting, Reporting, Ending
  <2> QED BY <1>1, <2>1, <2>2, RunnerMoves, RunnerIs DEF LogTyped
<1>4. CASE PlaybookEnds
  <2>1. PICK es \in EventLists : es = <<Other("log")>> /\ es \in StepEvents
    BY DEF EventLists, StepEvents
  <2>2. PICK t \in {"ok", "bad"} : runner' = [runner EXCEPT !.at = "read", !.events = es, !.then = t]
    BY <1>4, <2>1 DEF PlaybookEnds
  <2>3. runner' \in RunnerState /\ runner'.at = "read" /\ runner'.then = t /\ runner'.events = es /\ runner'.read = runner.read
    BY <2>2, RunnerIs DEF RunnerState
  <2>4. RunnerSound' /\ ToldSound'
    BY <1>1, <1>2, <2>1, <2>3 DEF RunnerSound, ToldSound, Resting, Reporting, Ending
  <2> QED BY <1>1, <2>3, <2>4, RunnerMoves, RunnerIs DEF LogTyped
<1> QED BY <1>3, <1>4

LEMMA FinishRowKeeps ==
  ASSUME EventsInv, FinishRow
  PROVE  EventsInv'
<1>1. runner.at \in {"ok", "bad"} /\ UNCHANGED cut
  BY DEF FinishRow
<1>2. jobRow \in Executing
  BY <1>1, EventParts DEF RunnerSound, Resting, Reporting, Ending
<1>3. PICK s \in Finished : Report(s, FinalEvents(s), "idle")
  BY DEF FinishRow, Finished
<1>4. PICK es : es = FinalEvents(s)
  OBVIOUS
<1>5. es \in LastEvents(s) /\ (s = "failed" => es = <<Failed("worker"), StatusChanged("failed")>>)
  BY <1>4 DEF FinalEvents, LastEvents, Finished
<1>6. es \in EventLists /\ s \in Status /\ "idle" \in Ending
  BY <1>5 DEF EventLists, Status, Finished, Ending
<1> QED BY <1>1, <1>2, <1>3, <1>4, <1>5, <1>6, ReportKeeps, EventParts DEF LogTyped

LEMMA ReadLengthKeeps ==
  ASSUME EventsInv, ReadLength
  PROVE  EventsInv'
<1> USE EventParts
<1>1. runner.at = "read" /\ runner' = [runner EXCEPT !.at = "write", !.read = Length] /\ UNCHANGED <<jobRow, applies, log, creator, viewer, cut>>
  BY DEF ReadLength
<1>2. /\ runner' \in RunnerState /\ runner'.at = "write" /\ runner'.read = Length
      /\ runner'.then = runner.then /\ runner'.events = runner.events /\ runner'.status = runner.status
  BY <1>1, RunnerIs DEF RunnerState
<1>3. RunnerSound'
  BY <1>1, <1>2, LogStays DEF RunnerSound, Resting, Reporting, Ending
<1>4. ToldSound'
  BY <1>2 DEF ToldSound, Resting
<1> QED BY <1>1, <1>2, <1>3, <1>4, RunnerMoves DEF LogTyped


\* What an idle or a stopped runner holds.
LEMMA RestingIs ==
  /\ Waiting \in RunnerState /\ Waiting.at = "idle" /\ Waiting.then = "none" /\ Waiting.read = 0
  /\ Asleep \in RunnerState /\ Asleep.at = "down" /\ Asleep.then = "none" /\ Asleep.read = 0
BY DEF Waiting, Asleep, RunnerState, EventLists

\* A runner that rests after a step without an event: its report was cut, or
\* what is told stays told.
LEMMA RestsKeeps ==
  ASSUME EventsInv, UNCHANGED <<jobRow, applies, log, creator, viewer>>, cut' \in BOOLEAN, runner' \in {Waiting, Asleep},
         jobRow \in Finished /\ ~cut' => runner.at \in Resting /\ ~cut
  PROVE  EventsInv'
<1> USE EventParts
<1>1. runner' \in RunnerState /\ runner'.at \in {"idle", "down"} /\ runner'.then = "none" /\ runner'.read = 0
  BY RestingIs
<1>2. RunnerSound'
  BY <1>1 DEF RunnerSound, Resting, Reporting, Ending
<1>3. ToldSound'
  BY LogStays DEF ToldSound
<1>4. runner'.read <= Length
  BY <1>1
<1> QED BY <1>1, <1>2, <1>3, <1>4, RunnerMoves DEF LogTyped

LEMMA RunnerCrashesKeeps ==
  ASSUME EventsInv, RunnerCrashes
  PROVE  EventsInv'
<1>1. UNCHANGED <<jobRow, applies, log, creator, viewer>> /\ runner' = Asleep /\ cut' = (cut \/ runner.then \in {"idle", "recovered"})
  BY DEF RunnerCrashes
<1>2. cut' \in BOOLEAN
  BY <1>1, EventParts DEF LogTyped
<1>3. jobRow \in Finished /\ ~cut' => runner.at \in Resting /\ ~cut
  BY <1>1, EventParts DEF RunnerSound, Finished, Executing, Ending
<1> QED BY <1>1, <1>2, <1>3, RestsKeeps

LEMMA RecoverRowKeeps ==
  ASSUME EventsInv, RecoverRow
  PROVE  EventsInv'
<1>1. runner.at = "down" /\ cut' = (cut /\ jobRow \notin Executing) /\ cut' \in BOOLEAN
  BY EventParts DEF RecoverRow, LogTyped
<1>2. CASE jobRow = "applying"
  <2>1. PICK es : es = <<Other("reconcile"), StatusChanged("reconcile_required")>>
    OBVIOUS
  <2>2. Report("reconcile_required", es, "recovered")
    BY <1>2, <2>1 DEF RecoverRow
  <2>3. es \in LastEvents("reconcile_required") /\ "reconcile_required" \in Finished
    BY <2>1 DEF LastEvents, Finished
  <2>4. es \in EventLists /\ "reconcile_required" \in Status /\ "recovered" \in Ending /\ jobRow \in Executing
    BY <1>2, <2>3 DEF EventLists, Status, Ending, Executing
  <2> QED BY <1>1, <2>2, <2>3, <2>4, ReportKeeps
<1>3. CASE jobRow \in {"checking", "planned"}
  <2>1. PICK es : es = <<Failed("worker"), StatusChanged("failed")>>
    OBVIOUS
  <2>2. Report("failed", es, "recovered")
    BY <1>3, <2>1 DEF RecoverRow
  <2>3. es \in LastEvents("failed") /\ "failed" \in Finished
    BY <2>1 DEF LastEvents, Finished
  <2>4. es \in EventLists /\ "failed" \in Status /\ "recovered" \in Ending /\ jobRow \in Executing
    BY <1>3, <2>3 DEF EventLists, Status, Ending, Executing
  <2> QED BY <1>1, <2>1, <2>2, <2>3, <2>4, ReportKeeps
<1>4. CASE jobRow \notin {"applying", "checking", "planned"}
  <2>1. runner' = Waiting /\ UNCHANGED <<jobRow, applies, log, creator, viewer>>
    BY <1>4 DEF RecoverRow
  <2>2. jobRow \in Finished /\ ~cut' => runner.at \in Resting /\ ~cut
    BY <1>1, <1>4 DEF Resting, Executing
  <2> QED BY <1>1, <2>1, <2>2, RestsKeeps
<1> QED BY <1>2, <1>3, <1>4

LEMMA GiveUpKeeps ==
  ASSUME EventsInv, runner.at = "write", GiveUpEvents, UNCHANGED <<jobRow, applies, log, creator, viewer>>
  PROVE  EventsInv'
<1> USE EventParts
<1>1. cut' = (cut \/ runner.then \in {"idle", "recovered"}) /\ cut' \in BOOLEAN
  BY DEF GiveUpEvents, LogTyped
<1>2. runner.then \in {"planned", "applying", "ok", "bad", "idle", "recovered"}
  BY RunnerIs DEF RunnerSound, Reporting, RunnerState
<1>3. CASE runner.then \in {"idle", "recovered"}
  <2>1. runner' \in {Waiting, Asleep} /\ cut'
    BY <1>1, <1>3 DEF GiveUpEvents
  <2> QED BY <1>1, <2>1, RestsKeeps
<1>4. CASE runner.then \in {"planned", "applying", "ok", "bad"}
  <2>1. jobRow \in Executing
    BY <1>4 DEF RunnerSound, Resting, Ending
  <2>2. PICK es \in EventLists : es = <<>>
    BY DEF EventLists
  <2>3. runner' = [runner EXCEPT !.at = "bad", !.events = es, !.then = "none"]
    BY <1>4, <2>2 DEF GiveUpEvents
  <2>4. runner' \in RunnerState /\ runner'.at = "bad" /\ runner'.then = "none" /\ runner'.read = runner.read
    BY <2>3, RunnerIs DEF RunnerState
  <2>5. RunnerSound' /\ ToldSound'
    BY <2>1, <2>4 DEF RunnerSound, ToldSound, Resting, Reporting, Ending
  <2> QED BY <1>1, <2>4, <2>5, RunnerMoves, RunnerIs DEF LogTyped
<1> QED BY <1>2, <1>3, <1>4

LEMMA WriteEventKeeps ==
  ASSUME EventsInv, WriteEvent
  PROVE  EventsInv'
<1> USE EventParts
<1>1. runner.at = "write" /\ UNCHANGED <<jobRow, applies, creator, viewer>>
  BY DEF WriteEvent
<1>2. CASE GiveUpEvents /\ UNCHANGED log
  BY <1>1, <1>2, GiveUpKeeps
<1>3. CASE AppendEvent(runner.read + 1, Head(runner.events)) /\ UNCHANGED cut /\
           runner' = CASE Tail(runner.events) # <<>> -> [runner EXCEPT !.at = "read", !.events = Tail(runner.events)]
                       [] Tail(runner.events) = <<>> /\ runner.then \in {"idle", "recovered"} -> Waiting
                       [] OTHER -> [runner EXCEPT !.at = runner.then, !.events = <<>>, !.then = "none"]
  <2>0. PICK L \in Nat : L = Length
    OBVIOUS
  <2>1. PICK t, e, rest : t = runner.then /\ e = Head(runner.events) /\ rest = Tail(runner.events)
    OBVIOUS
  <2>2. t \in {"planned", "applying", "ok", "bad", "idle", "recovered"}
    BY <1>1, <2>1, RunnerIs DEF RunnerSound, Reporting, RunnerState
  <2>3. /\ t \in {"planned", "applying", "ok", "bad"} => jobRow \in Executing /\ runner.events \in StepEvents
        /\ t \in {"idle", "recovered"} =>
             /\ runner.status \in Finished /\ jobRow \in {runner.status, "queued"} /\ runner.events \in LastEvents(runner.status)
             /\ runner.status = "failed" => FailureTold \/ runner.events = <<Failed("worker"), StatusChanged("failed")>>
    BY <1>1, <2>1 DEF RunnerSound, Resting, Ending
  <2>4. e \in JobEvent /\ e # Failed("page") /\ (t \in {"planned", "applying", "ok", "bad"} => rest = <<>>)
    BY <2>1, <2>2, <2>3, LastEventsEnd, StepEventsEnd
  <2>5. Wrote(L, e)
    <3>1. AppendEvent(runner.read + 1, e)
      BY <1>3, <2>1
    <3>2. runner.read + 1 \in Nat \ {0} /\ runner.read + 1 <= Length + 1
      BY RunnerIs
    <3>3. Wrote(Length, e)
      BY <3>1, <3>2, Appended
    <3> QED BY <2>0, <3>3
  <2>6. LogTyped' /\ CreatorSound'
    BY <1>1, <1>3, <2>4, <2>5, WroteTyped DEF LogTyped
  <2>7. PagesSound'
    BY <1>1, <2>4, <2>5, WrotePages
  <2>8. Length' = L + 1 /\ runner.read <= L /\ \A w \in Viewers : viewer'[w].read <= Length'
    BY <1>1, <2>0, <2>5, RunnerIs DEF RunnerTyped, Wrote
  <2>9. CASE t \in {"planned", "applying", "ok", "bad"}
    <3>1. PICK es \in EventLists : es = <<>>
      BY DEF EventLists
    <3>2. runner' = [runner EXCEPT !.at = t, !.events = es, !.then = "none"]
      BY <1>3, <2>1, <2>4, <2>9, <3>1
    <3>3. runner' \in RunnerState /\ runner'.at = t /\ runner'.then = "none" /\ runner'.read = runner.read
      BY <2>9, <3>2, RunnerIs DEF RunnerState
    <3>4. RunnerTyped'
      BY <1>1, <2>8, <3>3, RunnerIs DEF RunnerTyped, RunnerState
    <3>5. RunnerSound' /\ ToldSound'
      BY <1>1, <2>3, <2>9, <3>3 DEF RunnerSound, ToldSound, Resting, Reporting, Ending
    <3> QED BY <2>6, <2>7, <3>4, <3>5 DEF EventsInv
  <2>10. CASE t \in {"idle", "recovered"} /\ rest # <<>>
    <3>1. rest \in LastEvents(runner.status) /\ rest \in EventLists
      BY <2>1, <2>3, <2>10, LastEventsEnd DEF EventLists
    <3>2. runner' = [runner EXCEPT !.at = "read", !.events = rest]
      BY <1>3, <2>1, <2>10
    <3>3. runner' \in RunnerState /\ runner'.at = "read" /\ runner'.then = t /\ runner'.events = rest
          /\ runner'.status = runner.status /\ runner'.read = runner.read
      BY <2>1, <3>1, <3>2, RunnerIs DEF RunnerState
    <3>4. RunnerTyped'
      BY <1>1, <2>8, <3>3, RunnerIs DEF RunnerTyped, RunnerState
    <3>5. runner.status = "failed" => FailureTold'
      <4>1. runner.events = <<Failed("worker"), StatusChanged("failed")>> => e.kind = "failed"
        BY <2>1, <2>3, <2>10, LastEventsEnd
      <4> QED BY <2>3, <2>5, <2>10, <4>1, WroteTells
    <3>6. RunnerSound'
      BY <1>1, <2>3, <2>10, <3>1, <3>3, <3>5 DEF RunnerSound, Resting, Reporting, Ending
    <3>7. ToldSound'
      BY <3>3 DEF ToldSound, Resting
    <3> QED BY <2>6, <2>7, <3>4, <3>6, <3>7 DEF EventsInv
  <2>11. CASE t \in {"idle", "recovered"} /\ rest = <<>>
    <3>1. runner' = Waiting
      BY <1>3, <2>1, <2>11
    <3>2. runner' \in RunnerState /\ runner'.at = "idle" /\ runner'.then = "none" /\ runner'.read = 0
      BY <3>1, RestingIs
    <3>3. RunnerTyped'
      BY <1>1, <2>8, <3>2 DEF RunnerTyped, RunnerState
    <3>4. RunnerSound'
      BY <3>2 DEF RunnerSound, Resting, Reporting, Ending
    <3>5. e = StatusChanged(runner.status) /\ (runner.status = "failed" => FailureTold)
      BY <2>1, <2>3, <2>11, LastEventsEnd
    <3>6. \A s \in Finished : s = runner.status => Tells(s)' /\ (s = "failed" => FailureTold')
      BY <2>5, <3>5, WroteTells
    <3>7. jobRow' \in Finished => jobRow = runner.status /\ jobRow' = jobRow
      BY <1>1, <2>3, <2>11 DEF Finished
    <3>8. ToldSound'
      BY <3>6, <3>7 DEF ToldSound, Tells
    <3> QED BY <2>6, <2>7, <3>3, <3>4, <3>8 DEF EventsInv
  <2> QED BY <2>2, <2>9, <2>10, <2>11
<1> QED BY <1>2, <1>3 DEF WriteEvent, NumberAfter

LEMMA EventsInitially ==
  ASSUME EventsInit
  PROVE  EventsInv
<1>1. /\ jobRow = "none" /\ applies \in BOOLEAN /\ DOMAIN log = {} /\ creator = "save" /\ runner = Waiting
      /\ viewer = [v \in Viewers |-> Away] /\ cut = FALSE
  BY DEF EventsInit
<1>2. Length = 0 /\ DOMAIN log = 1 .. Length
  BY <1>1, FS_EmptySet DEF Length
<1>3. LogTyped
  BY <1>1, <1>2 DEF LogTyped
<1>4. Waiting \in RunnerState /\ Waiting.at = "idle" /\ Waiting.then = "none" /\ Waiting.read = 0
  BY RestingIs
<1>5. \A v \in Viewers : viewer[v] = Away
  BY <1>1
<1>6. Away \in [at : {"away", "row", "append"}, read : Nat] /\ Away.read = 0 /\ Away.at = "away"
  BY DEF Away
<1>7. RunnerTyped
  BY <1>1, <1>2, <1>4, <1>5, <1>6 DEF RunnerTyped, RunnerState
<1>8. CreatorSound /\ PagesSound
  BY <1>1, <1>5, <1>6 DEF CreatorSound, PagesSound
<1>9. RunnerSound
  BY <1>1, <1>4 DEF RunnerSound, Resting, Reporting, Ending
<1>10. ToldSound
  BY <1>1 DEF ToldSound, Finished
<1> QED BY <1>3, <1>7, <1>8, <1>9, <1>10 DEF EventsInv

LEMMA EventsKeep ==
  ASSUME EventsInv, [EventsNext]_eventVars
  PROVE  EventsInv'
<1>1. CASE UNCHANGED eventVars
  <2>1. UNCHANGED <<jobRow, applies, log, creator, runner, viewer, cut>> /\ Length' = Length
    BY <1>1, LogStays DEF eventVars
  <2>2. LogTyped' /\ RunnerTyped' /\ CreatorSound' /\ PagesSound'
    BY <2>1, EventParts DEF LogTyped, RunnerTyped, CreatorSound, PagesSound
  <2>3. RunnerSound' /\ ToldSound'
    BY <2>1, LogStays, EventParts DEF RunnerSound, ToldSound
  <2> QED BY <2>2, <2>3 DEF EventsInv
<1>2. CASE \E v \in Viewers : ReadEvents(v) \/ FindJob(v) \/ AppendFailed(v)
  BY <1>2, ReadEventsKeeps, FindJobKeeps, AppendFailedKeeps
<1>3. CASE SaveJobRow \/ AppendQueued \/ RetryFailed \/ ClaimRow
  BY <1>3, SaveJobRowKeeps, AppendQueuedKeeps, RetryFailedKeeps, ClaimRowKeeps
<1>4. CASE Plan \/ Apply \/ PlaybookEnds \/ GivesUp \/ FinishRow
  BY <1>4, PlanKeeps, PlaybookEndsKeeps, FinishRowKeeps
<1>5. CASE ReadLength \/ WriteEvent \/ RunnerCrashes \/ RecoverRow
  BY <1>5, ReadLengthKeeps, WriteEventKeeps, RunnerCrashesKeeps, RecoverRowKeeps
<1> QED BY <1>1, <1>2, <1>3, <1>4, <1>5 DEF EventsNext

LEMMA EventsTold ==
  ASSUME EventsInv
  PROVE  EventsTellTheJob
<1> USE EventParts
<1>1. EventsTypeOK
  <2>1. Range(log) \subseteq JobEvent
    BY DEF LogTyped, Range
  <2>2. DOMAIN log \subseteq Nat \ {0}
    BY DEF LogTyped
  <2> QED BY <2>1, <2>2 DEF EventsTypeOK, LogTyped, RunnerTyped
<1>2. NumbersDense
  BY DEF NumbersDense, LogTyped
<1>3. NobodyWritesBlind
  BY DEF NobodyWritesBlind, CreatorSound, PagesSound
<1>4. StatusTold
  <2> SUFFICES ASSUME runner = Waiting, jobRow \in Finished, ~cut
               PROVE  LastStatus = jobRow /\ (jobRow = "failed" => \E n \in DOMAIN log : log[n].kind = "failed")
    BY DEF StatusTold, Finished
  <2>1. Tells(jobRow) /\ (jobRow = "failed" => FailureTold)
    BY RestingIs DEF ToldSound, Resting
  <2>2. PICK n \in DOMAIN log : Shows(n) /\ log[n].status = jobRow /\ \A k \in DOMAIN log : k > n => ~Shows(k)
    BY <2>1 DEF Tells
  <2>3. \A s, k : k \in DOMAIN log /\ Shows(k) /\ log[k].status = s /\ (\A m \in DOMAIN log : m > k => ~Shows(m)) => s = jobRow
    <3>1. ASSUME NEW k \in DOMAIN log, Shows(k), \A m \in DOMAIN log : m > k => ~Shows(m) PROVE k = n
      <4>1. k \in Nat /\ n \in Nat /\ ~(n > k) /\ ~(k > n)
        BY <2>2, <3>1 DEF LogTyped
      <4> QED BY <4>1
    <3> QED BY <2>2, <3>1
  <2>4. jobRow \in Status \cup {"none"}
    BY DEF LogTyped
  <2>5. LastStatus = jobRow
    BY <2>2, <2>3, <2>4 DEF LastStatus, Shows
  <2> QED BY <2>1, <2>5 DEF FailureTold
<1> QED BY <1>1, <1>2, <1>3, <1>4 DEF EventsTellTheJob

(* In every behaviour of the events of a job, for every number of calls of  *)
(* the events page, of retries and of losses, the events are numbered       *)
(* without a hole, no writer appends to a list it has not seen, and an idle *)
(* worker's finished job is told with the status of its row unless the      *)
(* report was cut off.                                                      *)
THEOREM EventsAlwaysTellTheJob == EventsSpec => []EventsTellTheJob
<1>1. EventsInit => EventsInv
  BY EventsInitially
<1>2. EventsInv /\ [EventsNext]_eventVars => EventsInv'
  BY EventsKeep
<1>3. EventsInv => EventsTellTheJob
  BY EventsTold
<1> QED BY <1>1, <1>2, <1>3, PTL DEF EventsSpec
=============================================================================
