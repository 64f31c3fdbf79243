---------------------------- MODULE MCSchedules ----------------------------
(* Small instances of Schedules. *)
EXTENDS Schedules

CONSTANTS c1, c2, s1, t1, t2, p1

Body(op, ts, policy, threshold) ==
  [op |-> op, targets |-> ts, policy |-> policy, threshold |-> threshold, enabled |-> TRUE]

Check == [id |-> s1, row |-> Body("health_check", {t1}, NoPolicy, TRUE)]
Wide == [id |-> s1, row |-> Body("health_check", {t1, t2}, NoPolicy, FALSE)]
Update == [id |-> s1, row |-> Body("update_packages", {t1}, p1, FALSE)]
Docker == [id |-> s1, row |-> Body("docker_discovery", {t1}, NoPolicy, FALSE)]
Backup == [id |-> s1, row |-> Body("create_backup", {}, NoPolicy, FALSE)]

AllRequests == {Check, Backup, Wide, Update, Docker}

-----------------------------------------------------------------------------
(* Three parts of the schedules in one run: the slots of two schedules that *)
(* are created and toggled while time passes and the controller restarts,   *)
(* the scopes that secrets, targets and policies change, and the scheduled  *)
(* backup that waits for the requests behind the gate.                      *)
VARIABLE part

InFlight == UNION {IF req[c].pc = "write" THEN {req[c].rows[i].row : i \in DOMAIN req[c].rows} ELSE {} : c \in Clients}
AllRows == {schedules[s] : s \in DOMAIN schedules} \cup {dbSchedules[s] : s \in DOMAIN dbSchedules} \cup InFlight

\* What a part keeps to, as a condition on the states it reaches.
Slots ==
  /\ targets = Targets /\ managed = Targets
  /\ \A c \in Clients : req[c].pc \in {"idle", "write"}
  /\ faults > 0 => Cardinality({c \in Clients : req[c] # Idle}) <= 1
  /\ \A r \in AllRows : r.op = "create_backup" \/ (r.op = "health_check" /\ r.targets = {t1})
Scopes ==
  /\ faults = 0 /\ clock <= 1 /\ workerUp
  /\ \A r \in AllRows : r.op # "create_backup" /\ (r.op = "health_check" => r.targets # {t1} \/ targets # Targets)
  /\ managed = targets => \A r \in AllRows : r.enabled
Gates ==
  /\ faults = 0 /\ clock <= 1 /\ workerUp /\ managed = targets
  /\ \A c \in Clients : req[c].pc \in {"idle", "write", "lock", "deleted"}
  /\ \A r \in AllRows : r.op = "create_backup"

mcVars == <<vars, part>>
MCInit == Init /\ part \in {"slots", "scopes", "gates"}
MCNext ==
  /\ Next /\ part' = part
  /\ part = "slots" => Slots'
  /\ part = "scopes" => Scopes'
  /\ part = "gates" => Gates'
MCSpec == MCInit /\ [][MCNext]_mcVars /\ Fairness

Handlers == {"create", "toggle", "secret", "delete_target", "delete_policy"}
=============================================================================
