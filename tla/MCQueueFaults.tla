--------------------------- MODULE MCQueueFaults ---------------------------
(* The queue with a worker that crashes and loses database answers, the     *)
(* events of one job, and the instances of MCInventory.  They share no      *)
(* state here; a behaviour is about one of them, the others rest.           *)
EXTENDS MCJobQueue, JobEvents, MCInventory

mcVars == <<part, vars, eventVars, inventoryVars>>
MCInit ==
    /\ part \in {"queue", "events"} \cup InventoryParts
    /\ Init /\ EventsInit /\ InventoryInit
    /\ part # "events" => applies
MCNext ==
    /\ UNCHANGED part
    /\ \/ part = "queue" /\ Next /\ UNCHANGED <<eventVars, inventoryVars>>
       \/ part = "events" /\ EventsNext /\ UNCHANGED <<vars, inventoryVars>>
       \/ InventoryNext /\ UNCHANGED <<vars, eventVars>>
MCSpec == MCInit /\ [][MCNext]_mcVars
=============================================================================
