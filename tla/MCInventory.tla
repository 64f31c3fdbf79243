---------------------------- MODULE MCInventory ----------------------------
(* Small instances of Scans, Planner and WorkerHealth: what the controller  *)
(* knows of a container's packages and of the worker.  They share no state; *)
(* a behaviour is about one of them and the others rest.  Of WorkerHealth   *)
(* it is about the heartbeats, with a store that comes and goes, or about   *)
(* the downloads, with no clock.                                            *)
EXTENDS Scans, Planner, WorkerHealth

CONSTANTS p1, p2, p3
VARIABLE part

\* apt prints a line nobody can read, alone or before a package of a
\* security repository and another.
MCListings == {<<p3>>, <<p3, p1, p2>>}

Change(p, f, k) == [package |-> p, from |-> f, to |-> 2, kind |-> k, held |-> FALSE, authenticated |-> TRUE]
GoodChanges ==
  {Change(1, 0, "install"), Change(1, 1, "upgrade"), Change(1, 1, "downgrade"), Change(2, 1, "upgrade")}
BadChanges ==
  {Change(0, 1, "upgrade"), [Change(1, 1, "upgrade") EXCEPT !.held = TRUE],
   [Change(1, 1, "upgrade") EXCEPT !.authenticated = FALSE]}
MCRequests == {<<>>, <<1, 0>>, <<1, 2>>, <<2, 1>>}
MCChanges == UNION {[1..n -> GoodChanges] : n \in 0..2} \cup {<<c>> : c \in BadChanges}

InventoryParts == {"scans", "planner", "heartbeats", "downloads"}
inventoryVars == <<scanVars, plannerVars, workerVars>>
InventoryInit ==
  /\ ScanInit /\ PlannerInit /\ WorkerInit
  /\ part # "scans" => agentKnown /\ upgradable = <<p3>>
InventoryNext ==
  \/ part = "scans" /\ ScanNext /\ UNCHANGED <<plannerVars, workerVars>>
  \/ part = "planner" /\ PlannerNext /\ UNCHANGED <<scanVars, workerVars>>
  \/ /\ part = "heartbeats" /\ (BeatNext \/ StoreFails \/ Restarts)
     /\ UNCHANGED <<scanVars, plannerVars>>
  \/ /\ part = "downloads" /\ (LoopNext \/ StoreNext \/ Restarts)
     /\ UNCHANGED <<scanVars, plannerVars>>
=============================================================================
