-------------------------- MODULE DockerDiscovery --------------------------
(***************************************************************************)
(* Docker workloads of a registered agent's host: discovery runs under     *)
(* docker_discovery_lock, started by the API or the scheduler, and the     *)
(* operator's adopt and remove between their statements.                   *)
(***************************************************************************)
EXTENDS Naturals, FiniteSets

CONSTANTS
  Seekers,      \* concurrent requests and scheduled discoveries
  Workloads,    \* Docker containers the host may run
  NoSeeker,
  MaxRuns,      \* bound on discovery runs
  MaxMistakes   \* bound on failed calls, failed statements and closed connections

ASSUME DiscoveryAssumption ==
  NoSeeker \notin Seekers /\ MaxRuns \in Nat /\ MaxMistakes \in Nat

VARIABLES
  onHost,    \* the containers the host runs
  row,       \* docker_workloads: presence, management and change state
  runs,      \* docker_discovery_runs, in the order they started
  lockedBy,  \* holder of docker_discovery_lock
  seeker,    \* step of each discovery, its run and what the agent reported
  mistakes

discoveryVars == <<onHost, row, runs, lockedBy, seeker, mistakes>>

NoWorkload == [presence |-> "none", managed |-> FALSE, change |-> "none"]
Resting == [pc |-> "idle", run |-> 0, seen |-> {}, left |-> {}]

DiscoveryInit ==
  /\ onHost = {}
  /\ row = [w \in Workloads |-> NoWorkload]
  /\ runs = [r \in {} |-> "none"]
  /\ lockedBy = NoSeeker
  /\ seeker = [s \in Seekers |-> Resting]
  /\ mistakes = 0

RunIds == DOMAIN runs
Latest == Cardinality(RunIds)
Step(s, pc) == seeker' = [seeker EXCEPT ![s].pc = pc]
Release(s) == lockedBy' = IF lockedBy = s THEN NoSeeker ELSE lockedBy
Mistake == mistakes < MaxMistakes /\ mistakes' = mistakes + 1

(* Containers come and go. *)
HostChanges ==
  /\ onHost' \in SUBSET Workloads /\ onHost' # onHost
  /\ UNCHANGED <<row, runs, lockedBy, seeker, mistakes>>

RunDockerDiscovery(s) ==
  /\ seeker[s].pc = "idle" /\ Latest < MaxRuns
  /\ lockedBy = NoSeeker /\ lockedBy' = s
  /\ Step(s, "start")
  /\ UNCHANGED <<onHost, row, runs, mistakes>>

StartDockerDiscovery(s) ==
  /\ seeker[s].pc = "start" /\ Latest < MaxRuns
  /\ runs' = [r \in RunIds \cup {Latest + 1} |->
                IF r \in RunIds THEN runs[r] ELSE [status |-> "running", seen |-> {}]]
  /\ seeker' = [seeker EXCEPT ![s].pc = "fetch", ![s].run = Latest + 1]
  /\ UNCHANGED <<onHost, row, lockedBy, mistakes>>

(* docker_containers of the agent. *)
FetchDockerInventory(s) ==
  /\ seeker[s].pc = "fetch"
  /\ seeker' = [seeker EXCEPT ![s] = [@ EXCEPT !.pc = "persist", !.seen = onHost, !.left = onHost]]
  /\ UNCHANGED <<onHost, row, runs, lockedBy, mistakes>>

(* An upsert that also resets the management state. *)
UpsertAll(w) ==
  [presence |-> "present", managed |-> FALSE,
   change |-> IF row[w].presence = "none" THEN "new"
              ELSE IF row[w].presence = "missing" THEN "changed" ELSE "unchanged"]

UpsertDiscovered(w) ==
  [presence |-> "present", managed |-> row[w].managed,
   change |-> IF row[w].presence = "none" THEN "new"
              ELSE IF row[w].presence = "missing" THEN "changed" ELSE "unchanged"]

(* One statement for each container, in any order. *)
PersistDockerInventory(s) ==
  /\ seeker[s].pc = "persist"
  /\ \E w \in seeker[s].left :
       /\ row' = [row EXCEPT ![w] = UpsertDiscovered(w)]
       /\ seeker' = [seeker EXCEPT ![s].left = @ \ {w}]
  /\ UNCHANGED <<onHost, runs, lockedBy, mistakes>>

MarkMissingExcept(s) ==
  /\ seeker[s].pc = "persist" /\ seeker[s].left = {}
  /\ row' = [w \in Workloads |->
               IF row[w].presence = "present" /\ w \notin seeker[s].seen
               THEN [row[w] EXCEPT !.presence = "missing", !.change = "missing"] ELSE row[w]]
  /\ Step(s, "finish")
  /\ UNCHANGED <<onHost, runs, lockedBy, mistakes>>

(* The run's row gets its result; then the guard is dropped. *)
FinishDockerDiscovery(s) ==
  /\ seeker[s].pc \in {"finish", "fail"}
  /\ runs' = [runs EXCEPT ![seeker[s].run] =
                [status |-> IF seeker[s].pc = "finish" THEN "succeeded" ELSE "failed",
                 seen |-> seeker[s].seen]]
  /\ seeker' = [seeker EXCEPT ![s] = Resting]
  /\ Release(s)
  /\ UNCHANGED <<onHost, row, mistakes>>

(* The agent is missing, unreachable or has no Docker, or a statement of   *)
(* the inventory fails: the run is finished as failed.                     *)
FailInventoryPersistence(s) ==
  /\ seeker[s].pc \in {"fetch", "persist", "finish"}
  /\ Mistake /\ Step(s, "fail")
  /\ UNCHANGED <<onHost, row, runs, lockedBy>>

(* The first or the last statement of the run fails, or the client closes  *)
(* its connection: the future ends here and its guard with it.             *)
DiscoveryDropped(s) ==
  /\ seeker[s].pc # "idle"
  /\ Mistake /\ seeker' = [seeker EXCEPT ![s] = Resting]
  /\ Release(s)
  /\ UNCHANGED <<onHost, row, runs>>

AdoptDockerContainer(w) ==
  /\ row[w].presence # "none" /\ ~row[w].managed
  /\ row' = [row EXCEPT ![w].managed = TRUE]
  /\ UNCHANGED <<onHost, runs, lockedBy, seeker, mistakes>>

RemoveDockerContainer(w) ==
  /\ row[w].presence # "none"
  /\ row' = [row EXCEPT ![w] = NoWorkload]
  /\ UNCHANGED <<onHost, runs, lockedBy, seeker, mistakes>>

DiscoveryStep(s) ==
  \/ RunDockerDiscovery(s) \/ StartDockerDiscovery(s) \/ FetchDockerInventory(s)
  \/ PersistDockerInventory(s) \/ MarkMissingExcept(s) \/ FinishDockerDiscovery(s)

DiscoveryNext ==
  \/ HostChanges
  \/ \E w \in Workloads : AdoptDockerContainer(w) \/ RemoveDockerContainer(w)
  \/ \E s \in Seekers :
       DiscoveryStep(s) \/ FailInventoryPersistence(s) \/ DiscoveryDropped(s)

DiscoverySpec == DiscoveryInit /\ [][DiscoveryNext]_discoveryVars

----------------------------------------------------------------------------
(* Properties *)

Presences == {"none", "present", "missing"}

(* The variables have their types, and the two columns that say a workload *)
(* is missing agree.                                                       *)
DiscoveryTypeOK ==
  /\ onHost \subseteq Workloads
  /\ row \in [Workloads -> [presence : Presences, managed : BOOLEAN,
                            change : {"none", "new", "changed", "unchanged", "missing"}]]
  /\ \A w \in Workloads : (row[w].presence = "missing") = (row[w].change = "missing")
  /\ runs \in [1..Latest -> [status : {"running", "succeeded", "failed"},
                             seen : SUBSET Workloads]]
  /\ lockedBy \in Seekers \cup {NoSeeker}
  /\ seeker \in [Seekers -> [pc : {"idle", "start", "fetch", "persist", "finish", "fail"},
                             run : 0..MaxRuns, seen : SUBSET Workloads, left : SUBSET Workloads]]
  /\ mistakes \in 0..MaxMistakes

(* When the latest run succeeded, no workload is shown as present that the *)
(* run did not see, whatever earlier runs, adoptions and removals did      *)
(* between its statements (docker_discovery_lock).                         *)
PresentWasSeen ==
  Latest > 0 /\ runs[Latest].status = "succeeded" /\ lockedBy = NoSeeker
    => \A w \in Workloads : row[w].presence = "present" => w \in runs[Latest].seen

(* What an operator adopted stays managed until it is removed: discovery,  *)
(* also of a container that was missing, does not take the decision back.  *)
AdoptionSurvives ==
  [][\A w \in Workloads : row[w].managed => row'[w].managed \/ row'[w] = NoWorkload]_discoveryVars

(* Discovery tells the truth and keeps the operator's decisions: what is    *)
(* shown as present was seen by the latest run, and an adoption stands.     *)
DiscoveryFaithful == [](DiscoveryTypeOK /\ PresentWasSeen) /\ AdoptionSurvives
=============================================================================
