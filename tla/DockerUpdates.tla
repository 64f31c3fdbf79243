--------------------------- MODULE DockerUpdates ---------------------------
(***************************************************************************)
(* Docker on one connected Linux target: discovery, lifecycle actions and  *)
(* image updates of one Compose service.  The controller's handlers call   *)
(* the agent with a client that gives an attempt up after 20 s and tries   *)
(* again; the agent's handler and the docker process it waits for may go   *)
(* on.  What the handlers see is saved with the events that lead there.    *)
(***************************************************************************)
EXTENDS Naturals, Sequences, FiniteSets, Functions

CONSTANTS
  Clients,        \* concurrent API requests
  Kinds,          \* the routes they use
  MaxImages,      \* bound on the images pushed to the registry
  MaxContainers,  \* bound on the containers of the service
  MaxRetries,     \* AgentClientConfig::max_retries
  MaxEvents,      \* MAX_DOCKER_INVENTORY_EVENTS
  MaxRequests     \* bound on requests

ASSUME DockerAssumption ==
  /\ Kinds \subseteq {"discover", "apply", "start", "stop", "restart"}
  /\ {MaxImages, MaxContainers, MaxEvents} \subseteq Nat \ {0}
  /\ {MaxRetries, MaxRequests} \subseteq Nat

VARIABLES
  registry,   \* the image the registry serves under the service's tag
  tag,        \* the image the tag names on the host
  service,    \* the service's container, as docker ps and inspect show it
  foreign,    \* the Compose files or the replicas are no longer the labels'
  request,    \* the handler of each client
  call,       \* the agent's handler of each attempt of each request
  inventory,  \* the row of target_docker_inventory
  audit,      \* events docker.image_update.applied: the containers replaced
  clock,      \* the time by the agents' collected_at: collections so far
  resorted,   \* history: the retention has put events that were not in order of time into it
  requests    \* requests so far

host == <<registry, tag, service, foreign>>
saved == <<inventory, audit, resorted>>
updateVars == <<host, request, call, clock, saved, requests>>

Attempts == 1..(MaxRetries + 1)
Containers == 1..MaxContainers
Images == 1..MaxImages
View == [id : Containers, image : Images, up : BOOLEAN]
NoRow == [view |-> [id |-> 0, image |-> 0, up |-> FALSE], events |-> <<>>]
Event == [id : Containers, kind : {"added", "removed", "image", "state"}, up : BOOLEAN, at : Nat]

Idle == [kind |-> "none", pc |-> "idle", container |-> 1, expected |-> 1,
         attempt |-> 1, seen |-> NoRow.view, at |-> 0, answer |-> "none"]
\* image: what the container ran when the attempt inspected it.
NoCall == [pc |-> "none", image |-> 1, replaced |-> FALSE]

UpdatesInit ==
  /\ registry = 1 /\ tag = 1 /\ foreign = FALSE
  /\ service = [id |-> 1, image |-> 1, up |-> TRUE]
  /\ request = [c \in Clients |-> Idle]
  /\ call = [c \in Clients |-> [a \in Attempts |-> NoCall]]
  /\ inventory = NoRow /\ audit = {} /\ clock = 0 /\ resorted = FALSE /\ requests = 0

----------------------------------------------------------------------------
(* The host and its surroundings *)

(* Somebody pushes a new image under the same tag. *)
RegistryMoves ==
  /\ registry < MaxImages
  /\ registry' = registry + 1
  /\ UNCHANGED <<tag, service, foreign, request, call, clock, saved, requests>>

(* Somebody edits the Compose file or scales the service. *)
ComposeChanges ==
  /\ ~foreign /\ foreign' = TRUE
  /\ UNCHANGED <<registry, tag, service, request, call, clock, saved, requests>>

----------------------------------------------------------------------------
(* The agent: the steps of one attempt of an image update *)

At(c, a, pc) == call[c][a].pc = pc
Reply(c, a, pc) ==
  /\ call' = [call EXCEPT ![c][a].pc = pc]
  /\ UNCHANGED <<request, clock, saved, requests>>
Inspected(c) == request[c].container

(* What an image update check of container id answers. *)
ImageUpdateCheck(id) ==
  IF id # service.id THEN "container_unavailable"
  ELSE IF registry = service.image THEN "current" ELSE "update_available"

InspectComposeUpdateContainer(c, a) ==
  /\ At(c, a, "inspect")
  /\ \/ /\ Inspected(c) = service.id /\ ~foreign
        /\ call' = [call EXCEPT ![c][a] = [pc |-> "verify", image |-> service.image, replaced |-> FALSE]]
        /\ UNCHANGED <<request, clock, saved, requests>>
     \/ (Inspected(c) # service.id \/ foreign) /\ Reply(c, a, "refused")
     \/ Reply(c, a, "error")
  /\ UNCHANGED host

\* The image is compared with the one the inspection saw.
VerifyRemoteUpdateImage(c, a) ==
  /\ At(c, a, "verify")
  /\ \/ Reply(c, a, IF registry # request[c].expected \/ registry = call[c][a].image
                    THEN "refused" ELSE "pull")
     \/ Reply(c, a, "error")
  /\ UNCHANGED host

(* docker compose pull fetches what the registry serves when it resolves   *)
(* the tag, for a handler that still waits or for one that is gone.        *)
PullEnds(c, a) ==
  /\ At(c, a, "pull")
  /\ \/ tag' = registry /\ Reply(c, a, "pulled")
     \/ tag' = tag /\ Reply(c, a, "error")
  /\ UNCHANGED <<registry, service, foreign>>

VerifyPulledImage(c, a) ==
  /\ At(c, a, "pulled")
  /\ \/ Reply(c, a, IF tag # request[c].expected THEN "refused" ELSE "scope")
     \/ Reply(c, a, "error")
  /\ UNCHANGED host

VerifyComposeServiceScope(c, a) ==
  /\ At(c, a, "scope")
  /\ \/ Reply(c, a, IF Inspected(c) # service.id \/ foreign THEN "refused" ELSE "up")
     \/ Reply(c, a, "error")
  /\ UNCHANGED host

(* docker compose up --force-recreate that reports success and keeps the   *)
(* container whose image did not change.                                   *)
RecreateInPlace(c, a) ==
  /\ At(c, a, "up")
  /\ service' = [service EXCEPT !.image = tag, !.up = TRUE]
  /\ Reply(c, a, "status")
  /\ UNCHANGED <<registry, tag, foreign>>

(* The new container runs the image the tag names now; up may also fail    *)
(* before it replaced anything, or after it did, with the container down.  *)
RecreateComposeService(c, a) ==
  /\ At(c, a, "up")
  /\ \/ /\ service.id < MaxContainers
        /\ \E healthy \in BOOLEAN :
             /\ service' = [id |-> service.id + 1, image |-> tag, up |-> healthy]
             /\ call' = [call EXCEPT ![c][a].pc = IF healthy THEN "status" ELSE "error", ![c][a].replaced = TRUE]
        /\ UNCHANGED <<request, clock, saved, requests>>
     \/ service' = service /\ Reply(c, a, "error")
  /\ UNCHANGED <<registry, tag, foreign>>

InspectUpdatedComposeService(c, a) ==
  /\ At(c, a, "status")
  /\ \/ Reply(c, a, IF service.up THEN "ok" ELSE "error")
     \/ Reply(c, a, "error")
  /\ UNCHANGED host

(* docker start, stop or restart of a lifecycle request; one that reports   *)
(* an error may have acted.                                                 *)
AgentDockerLifecycle(c, a) ==
  /\ At(c, a, "act")
  /\ \/ /\ Inspected(c) = service.id
        /\ service' = [service EXCEPT !.up = (request[c].kind # "stop")]
        /\ \E r \in {"ok", "error"} : Reply(c, a, r)
     \/ service' = service /\ \E r \in {"refused", "error"} : Reply(c, a, r)
  /\ UNCHANGED <<registry, tag, foreign>>

AgentStep(c, a) ==
  \/ InspectComposeUpdateContainer(c, a) \/ VerifyRemoteUpdateImage(c, a)
  \/ PullEnds(c, a) \/ VerifyPulledImage(c, a) \/ VerifyComposeServiceScope(c, a)
  \/ RecreateComposeService(c, a) \/ InspectUpdatedComposeService(c, a)
  \/ AgentDockerLifecycle(c, a)

----------------------------------------------------------------------------
(* The controller *)

Goto(c, pc) == request' = [request EXCEPT ![c].pc = pc]
Answer(c, answer) == request' = [request EXCEPT ![c].pc = "idle", ![c].answer = answer]

(* A request for a container and an image some earlier answer named. *)
Ask(c, kind, container, expected) ==
  /\ request[c].pc = "idle" /\ requests < MaxRequests
  /\ requests' = requests + 1
  /\ request' = [request EXCEPT ![c] = [Idle EXCEPT !.kind = kind, !.pc = "discover",
                                          !.container = container, !.expected = expected]]
  /\ call' = [call EXCEPT ![c] = [a \in Attempts |-> NoCall]]
  /\ UNCHANGED <<host, clock, saved>>

FirstCall(c) ==
  IF request[c].kind = "apply" THEN "inspect" ELSE "act"
Send(c, a) ==
  /\ call' = [call EXCEPT ![c][a].pc = FirstCall(c)]
  /\ request' = [request EXCEPT ![c].pc = "call", ![c].attempt = a]

(* docker_containers of the agent: what docker ps and inspect show now, and *)
(* when it was collected.                                                   *)
AgentDockerContainers == service
Collect(c) ==
  /\ clock' = clock + 1
  /\ request' = [request EXCEPT ![c].pc = "save", ![c].seen = AgentDockerContainers, ![c].at = clock + 1]
  /\ UNCHANGED call

(* The agent answers, also that Docker is not available, or it cannot be    *)
(* reached.                                                                 *)
Discover(c) ==
  /\ request[c].pc = "discover"
  /\ \/ request[c].kind = "discover" /\ Collect(c)
     \/ /\ UNCHANGED clock
        /\ \/ request[c].kind = "discover" /\ Answer(c, "ok") /\ UNCHANGED call
           \/ request[c].kind # "discover" /\ Answer(c, "refused") /\ UNCHANGED call
           \/ /\ request[c].kind = "apply" /\ request[c].container = service.id
              /\ Goto(c, "check") /\ UNCHANGED call
           \/ /\ request[c].kind \in {"start", "stop", "restart"} /\ request[c].container = service.id
              /\ Send(c, 1)
           \/ Answer(c, "failed") /\ UNCHANGED call
  /\ UNCHANGED <<host, saved, requests>>

(* The controller's own check before it asks the agent to apply. *)
ValidateFreshImageUpdateCheck(c) ==
  /\ request[c].pc = "check"
  /\ LET check == ImageUpdateCheck(request[c].container)
     IN \/ check = "update_available" /\ registry = request[c].expected /\ Send(c, 1)
        \/ /\ check \in {"current", "update_available"}
           /\ check = "current" \/ registry # request[c].expected
           /\ Answer(c, "refused") /\ UNCHANGED call
        \/ Answer(c, "failed") /\ UNCHANGED call
  /\ UNCHANGED <<host, clock, saved, requests>>

(* The agent client: an answer of this attempt, or none for 20 seconds.    *)
(* Server errors and silence are tried again, other refusals are final.    *)
ClientReceives(c) ==
  LET a == request[c].attempt
      pc == call[c][a].pc
  IN /\ request[c].pc = "call"
     /\ \/ pc = "ok" /\ Goto(c, IF request[c].kind = "apply" THEN "audit" ELSE "refresh")
                     /\ UNCHANGED call
        \/ pc = "refused" /\ UNCHANGED call
           /\ Answer(c, IF request[c].kind = "apply" THEN "refused" ELSE "failed")
        \/ pc \notin {"ok", "refused"} /\ a <= MaxRetries /\ Send(c, a + 1)
        \/ pc \notin {"ok", "refused"} /\ a > MaxRetries /\ Answer(c, "failed") /\ UNCHANGED call
     /\ UNCHANGED <<host, clock, saved, requests>>

(* The audit event; a storage error is logged and the request goes on. *)
AppendAudit(c) ==
  /\ request[c].pc = "audit"
  /\ audit' \in {audit, audit \cup {request[c].container}}
  /\ Goto(c, "refresh")
  /\ UNCHANGED <<host, call, clock, inventory, resorted, requests>>

Refresh(c) ==
  /\ request[c].pc = "refresh"
  /\ Collect(c) \/ (Answer(c, "ok") /\ UNCHANGED <<call, clock>>)
  /\ UNCHANGED <<host, saved, requests>>

----------------------------------------------------------------------------
(* The saved inventory *)

Happened(view, kind, at) == [id |-> view.id, kind |-> kind, up |-> view.up, at |-> at]

RecordCurrentContainerEvents(previous, current, at) ==
  IF previous = NoRow.view THEN <<>>
  ELSE IF previous.id # current.id THEN <<Happened(current, "added", at)>>
  ELSE (IF previous.image # current.image THEN <<Happened(current, "image", at)>> ELSE <<>>)
       \o (IF previous.up # current.up THEN <<Happened(current, "state", at)>> ELSE <<>>)

RecordRemovedContainerEvents(previous, current, at) ==
  IF previous = NoRow.view \/ previous.id = current.id
  THEN <<>> ELSE <<Happened(previous, "removed", at)>>

AllEvents(row, current, at) ==
  row.events \o (RecordCurrentContainerEvents(row.view, current, at)
                 \o RecordRemovedContainerEvents(row.view, current, at))

(* The cap keeps the events that came first. *)
KeepOldestEvents(row, current, at) ==
  LET events == AllEvents(row, current, at)
  IN SubSeq(events, 1, IF Len(events) > MaxEvents THEN MaxEvents ELSE Len(events))

UpdateDockerInventoryEvents(row, current, at) ==
  LET events == AllEvents(row, current, at)
      surplus == IF Len(events) > MaxEvents THEN Len(events) - MaxEvents ELSE 0
  IN SubSeq(events, surplus + 1, Len(events))

(* One transaction that holds the target's row while it reads the previous *)
(* inventory and writes the new one; whether it succeeds matters only to a *)
(* discovery.                                                              *)
SaveTargetDockerInventory(c) ==
  /\ request[c].pc = "save"
  /\ \/ /\ inventory' = [view |-> request[c].seen,
                         events |-> UpdateDockerInventoryEvents(inventory, request[c].seen, request[c].at)]
        /\ Answer(c, "ok")
     \/ /\ inventory' = inventory
        /\ Answer(c, IF request[c].kind = "discover" THEN "failed" ELSE "ok")
  /\ UNCHANGED <<host, call, clock, audit, resorted, requests>>

Chronological(events) == \A i, j \in DOMAIN events : i < j => events[i].at <= events[j].at
Retained(events, cutoff) == {i \in DOMAIN events : events[i].at >= cutoff}

(* The daily retention of prune_retained_data.  A row with an expired event *)
(* gets the others back in order of their time, equal ones in any order.    *)
PruneExpiredEvents(cutoff) ==
  LET kept == Retained(inventory.events, cutoff)
  IN /\ kept # DOMAIN inventory.events
     /\ \E order \in Bijection(1..Cardinality(kept), kept) :
          LET events == [i \in 1..Cardinality(kept) |-> inventory.events[order[i]]]
          IN Chronological(events) /\ inventory' = [inventory EXCEPT !.events = events]
     /\ resorted' = (resorted \/ ~Chronological(inventory.events))
     /\ UNCHANGED <<host, request, call, clock, audit, requests>>

----------------------------------------------------------------------------
ControllerStep(c) ==
  \/ Discover(c) \/ ValidateFreshImageUpdateCheck(c) \/ ClientReceives(c)
  \/ AppendAudit(c) \/ Refresh(c) \/ SaveTargetDockerInventory(c)

UpdatesNext ==
  \/ RegistryMoves \/ ComposeChanges
  \/ \E cutoff \in 1..clock + 1 : PruneExpiredEvents(cutoff)
  \/ \E c \in Clients :
       \/ ControllerStep(c)
       \/ \E a \in Attempts : AgentStep(c, a)
       \/ \E kind \in Kinds, container \in 1..service.id, expected \in 1..registry :
            Ask(c, kind, container, expected)

UpdatesSpec == UpdatesInit /\ [][UpdatesNext]_updateVars

----------------------------------------------------------------------------
(* Properties *)

(* The variables have their types; the event list stays within its cap. *)
UpdatesTypeOK ==
  /\ registry \in Images /\ tag \in Images /\ service \in View /\ foreign \in BOOLEAN
  /\ request \in [Clients ->
       [kind : Kinds \cup {"none"},
        pc : {"idle", "discover", "check", "call", "audit", "refresh", "save"},
        container : Containers, expected : Images, attempt : Attempts,
        seen : View \cup {NoRow.view}, at : Nat, answer : {"none", "ok", "refused", "failed"}]]
  /\ call \in [Clients -> [Attempts ->
       [pc : {"none", "inspect", "verify", "pull", "pulled", "scope", "up", "status", "act",
              "ok", "refused", "error"},
        image : Images, replaced : BOOLEAN]]]
  /\ inventory \in [view : View \cup {NoRow.view}, events : Seq(Event)]
  /\ Len(inventory.events) <= MaxEvents
  /\ audit \subseteq Containers /\ clock \in Nat /\ resorted \in BOOLEAN /\ requests \in 0..MaxRequests

(* The types hold, and the history agrees with the inventory it leads to,   *)
(* although discoveries are saved in another order than they were made, old *)
(* events are dropped and expired ones pruned: the last event about a       *)
(* container says what the inventory shows of it (the FOR UPDATE            *)
(* transaction of save, prune_expired_events), until the retention sorts a  *)
(* history whose discoveries were not saved in the order they were made.    *)
EventsAgree ==
  /\ UpdatesTypeOK
  /\ resorted \/ \A i \in DOMAIN inventory.events :
       LET e == inventory.events[i]
       IN (\A j \in (i + 1)..Len(inventory.events) : inventory.events[j].id # e.id)
          => IF e.kind = "removed" THEN inventory.view.id # e.id
             ELSE inventory.view.id = e.id /\ inventory.view.up = e.up

(* An image update that was audited or answered with success has replaced  *)
(* the container the operator chose, whatever other requests, retries and  *)
(* abandoned attempts did meanwhile.                                       *)
SuccessReplaced ==
  /\ \A id \in audit : service.id > id
  /\ \A c \in Clients :
       request[c].kind = "apply" /\ request[c].answer = "ok" => service.id > request[c].container
=============================================================================
