---------------------------- MODULE DockerProofs ----------------------------
(* For any number of clients, images, containers, retries and events: an    *)
(* image update that was audited or answered with success has replaced the  *)
(* container it was about, and the events of the saved inventory lead to    *)
(* what it shows.  The second part is about the discovery of workloads.     *)
EXTENDS DockerUpdates, DockerDiscovery, FiniteSetTheorems, WellFoundedInduction, TLAPS

RequestRow ==
  [kind : Kinds \cup {"none"},
   pc : {"idle", "discover", "check", "call", "audit", "refresh", "save"},
   container : Containers, expected : Images, attempt : Attempts,
   seen : View \cup {NoRow.view}, at : Nat, answer : {"none", "ok", "refused", "failed"}]
CallSteps == {"none", "inspect", "verify", "pull", "pulled", "scope", "up", "status", "act", "ok", "refused", "error"}
CallRow == [pc : CallSteps, image : Images, replaced : BOOLEAN]

(* The container a request is about is one that has existed. *)
AsksForKnown == \A c \in Clients : request[c].container <= service.id
(* An attempt that has seen compose up succeed, and the request that has    *)
(* its answer, come after a new container.                                  *)
Replaced(c) == service.id > request[c].container
AttemptsReplaced ==
  \A c \in Clients, a \in Attempts :
    /\ call[c][a].pc = "status" => Replaced(c)
    /\ call[c][a].pc = "ok" /\ request[c].kind = "apply" => Replaced(c)
    /\ call[c][a].pc = "act" => request[c].kind # "apply"
RequestsReplaced ==
  \A c \in Clients :
    /\ request[c].pc = "audit" => Replaced(c)
    /\ request[c].pc \in {"refresh", "save"} /\ request[c].kind = "apply" => Replaced(c)
    /\ request[c].pc = "save" => request[c].seen \in View
NothingSaved == inventory.view = NoRow.view => inventory.events = <<>>

(* What an event says of the container that the inventory shows. *)
Says(e, view) == IF e.kind = "removed" THEN view.id # e.id ELSE view.id = e.id /\ view.up = e.up
(* An event of the save of view at a time. *)
Fresh(e, view, at) == e.at = at /\ Says(e, view)
(* Events of one time come from one save, and say the same of a container.  *)
Tied(events) ==
  \A i, j \in 1..Len(events) : events[i].at = events[j].at /\ events[i].id = events[j].id =>
    /\ events[i].kind = "removed" <=> events[j].kind = "removed"
    /\ events[i].kind # "removed" => events[i].up = events[j].up
(* Every collection has a time of its own, and is saved once. *)
RequestsTimed ==
  \A c \in Clients : request[c].pc = "save" =>
    /\ request[c].at <= clock
    /\ \A d \in Clients \ {c} : request[d].pc = "save" => request[d].at # request[c].at
EventsTimed ==
  \A i \in 1..Len(inventory.events) :
    /\ inventory.events[i].at <= clock
    /\ \A c \in Clients : request[c].pc = "save" => request[c].at # inventory.events[i].at
Timed == RequestsTimed /\ EventsTimed /\ Tied(inventory.events)

DockerInv ==
  /\ EventsAgree /\ SuccessReplaced /\ AsksForKnown /\ AttemptsReplaced /\ RequestsReplaced /\ NothingSaved
  /\ Timed

(* A host that was never asked satisfies the invariant. *)
LEMMA InitDocker == UpdatesInit => DockerInv
<1> SUFFICES ASSUME UpdatesInit PROVE DockerInv
  OBVIOUS
<1>1. {MaxImages, MaxContainers, MaxEvents} \subseteq Nat \ {0} /\ MaxRetries \in Nat /\ MaxRequests \in Nat
  BY DockerAssumption
<1>2. 1 \in Images /\ 1 \in Containers /\ 1 \in Attempts
  BY <1>1 DEF Images, Containers, Attempts
<1>3. Idle \in RequestRow
  BY <1>2 DEF Idle, RequestRow, NoRow
<1>4. NoCall \in CallRow
  BY <1>2 DEF NoCall, CallRow, CallSteps
<1>5. service \in View
  BY <1>2 DEF UpdatesInit, View
<1>6. /\ inventory.view = NoRow.view /\ inventory.events = <<>>
      /\ inventory \in [view : View \cup {NoRow.view}, events : Seq(Event)]
  BY DEF UpdatesInit, NoRow
<1>7. request \in [Clients -> RequestRow] /\ call \in [Clients -> [Attempts -> CallRow]]
  BY <1>3, <1>4 DEF UpdatesInit
<1>8. /\ registry \in Images /\ tag \in Images /\ foreign \in BOOLEAN /\ audit \subseteq Containers
      /\ clock \in Nat /\ resorted \in BOOLEAN /\ requests \in 0..MaxRequests
  <2>1. registry = 1 /\ tag = 1 /\ foreign = FALSE /\ audit = {} /\ clock = 0 /\ resorted = FALSE /\ requests = 0
    BY DEF UpdatesInit
  <2>2. 0 \in 0..MaxRequests /\ 0 \in Nat
    BY <1>1
  <2> QED BY <1>2, <2>1, <2>2, Zenon
<1>9. UpdatesTypeOK
  BY <1>1, <1>5, <1>6, <1>7, <1>8 DEF UpdatesTypeOK, RequestRow, CallRow, CallSteps
<1>10. EventsAgree
  BY <1>6, <1>9 DEF EventsAgree
<1>11. SuccessReplaced /\ AsksForKnown /\ AttemptsReplaced /\ RequestsReplaced /\ NothingSaved
  BY <1>6 DEF UpdatesInit, Idle, NoCall, SuccessReplaced, AsksForKnown, AttemptsReplaced, RequestsReplaced, NothingSaved
<1>12. Timed
  BY <1>6 DEF UpdatesInit, Idle, Timed, RequestsTimed, EventsTimed, Tied
<1> QED BY <1>10, <1>11, <1>12 DEF DockerInv

(* The agent's step of one attempt changes that attempt only. *)
LEMMA AttemptSet ==
  ASSUME UpdatesTypeOK, NEW c \in Clients, NEW a \in Attempts, NEW next \in CallRow,
         call' = [call EXCEPT ![c][a] = next]
  PROVE  /\ call' \in [Clients -> [Attempts -> CallRow]] /\ call'[c][a] = next
         /\ \A d \in Clients, b \in Attempts : call'[d][b] = call[d][b] \/ (d = c /\ b = a)
<1>1. call \in [Clients -> [Attempts -> CallRow]]
  BY DEF UpdatesTypeOK, CallRow, CallSteps
<1>2. PICK f : f = [call[c] EXCEPT ![a] = next]
  OBVIOUS
<1>3. f \in [Attempts -> CallRow] /\ f[a] = next /\ \A b \in Attempts \ {a} : f[b] = call[c][b]
  BY <1>1, <1>2
<1>4. call' = [call EXCEPT ![c] = f]
  BY <1>2
<1>5. call' \in [Clients -> [Attempts -> CallRow]] /\ call'[c] = f /\ \A d \in Clients \ {c} : call'[d] = call[d]
  BY <1>1, <1>3, <1>4
<1> QED BY <1>3, <1>5

LEMMA AttemptReplies ==
  ASSUME UpdatesTypeOK, NEW c \in Clients, NEW a \in Attempts, NEW pc \in CallSteps,
         call' = [call EXCEPT ![c][a].pc = pc]
  PROVE  /\ call' \in [Clients -> [Attempts -> CallRow]] /\ call'[c][a].pc = pc
         /\ \A d \in Clients, b \in Attempts : call'[d][b] = call[d][b] \/ (d = c /\ b = a)
<1>1. call[c][a] \in CallRow /\ [call[c][a] EXCEPT !.pc = pc] \in CallRow
  <2>1. call \in [Clients -> [Attempts -> CallRow]]
    BY DEF UpdatesTypeOK, CallRow, CallSteps
  <2>2. call[c][a] \in CallRow
    BY <2>1
  <2> QED BY <2>2 DEF CallRow
<1>2. PICK next \in CallRow : next = [call[c][a] EXCEPT !.pc = pc]
  BY <1>1
<1>3. next.pc = pc
  BY <1>1, <1>2 DEF CallRow
<1>4. call' = [call EXCEPT ![c][a] = next]
  BY <1>2
<1>5. call' \in [Clients -> [Attempts -> CallRow]] /\ call'[c][a] = next
  <2>1. call \in [Clients -> [Attempts -> CallRow]]
    BY DEF UpdatesTypeOK, CallRow, CallSteps
  <2>2. PICK f : f = [call[c] EXCEPT ![a] = next]
    OBVIOUS
  <2>3. f \in [Attempts -> CallRow] /\ f[a] = next
    BY <2>1, <2>2
  <2>4. call' = [call EXCEPT ![c] = f]
    BY <1>4, <2>2
  <2> QED BY <2>1, <2>3, <2>4
<1>6. \A d \in Clients, b \in Attempts : call'[d][b] = call[d][b] \/ (d = c /\ b = a)
  BY <1>4, AttemptSet
<1> QED BY <1>3, <1>5, <1>6

(* A step of the agent replaces containers by later ones only and sees      *)
(* success only after that.                                                 *)
LEMMA AgentKeeps ==
  ASSUME DockerInv, NEW c \in Clients, NEW a \in Attempts,
         call' \in [Clients -> [Attempts -> CallRow]],
         \A d \in Clients, b \in Attempts : call'[d][b] = call[d][b] \/ (d = c /\ b = a),
         registry' \in Images, tag' \in Images, service' \in View, foreign' \in BOOLEAN,
         service'.id >= service.id,
         call'[c][a].pc = "status" => service'.id > request[c].container,
         call'[c][a].pc = "ok" /\ request[c].kind = "apply" => service'.id > request[c].container,
         call'[c][a].pc # "act",
         UNCHANGED <<request, clock, saved, requests>>
  PROVE  DockerInv'
<1> USE DEF DockerInv
<1>1. /\ request' = request /\ inventory' = inventory /\ audit' = audit /\ requests' = requests
      /\ clock' = clock /\ resorted' = resorted
  BY DEF saved
<1>2. UpdatesTypeOK
  BY DEF EventsAgree
<1>3. UpdatesTypeOK'
  BY <1>1, <1>2 DEF UpdatesTypeOK, CallRow, CallSteps
<1>4. EventsAgree' /\ NothingSaved' /\ Timed'
  BY <1>1, <1>3 DEF EventsAgree, NothingSaved, Timed, RequestsTimed, EventsTimed
<1>5. service.id \in Nat /\ service'.id \in Nat /\ \A d \in Clients : request[d].container \in Nat
  BY <1>2 DEF UpdatesTypeOK, View, Containers
<1>6. \A n \in Nat : (service.id > n => service'.id > n) /\ (n <= service.id => n <= service'.id)
  BY <1>5
<1>7. \A d \in Clients : Replaced(d) => Replaced(d)'
  BY <1>1, <1>5, <1>6 DEF Replaced
<1>8. \A id \in audit : id \in Nat
  BY <1>2 DEF UpdatesTypeOK, Containers
<1>9. SuccessReplaced'
  BY <1>1, <1>5, <1>6, <1>8 DEF SuccessReplaced
<1>10. AsksForKnown'
  BY <1>1, <1>5, <1>6 DEF AsksForKnown
<1>11. RequestsReplaced'
  BY <1>1, <1>7 DEF RequestsReplaced
<1>12. AttemptsReplaced'
  <2> SUFFICES ASSUME NEW d \in Clients, NEW b \in Attempts
               PROVE  /\ call'[d][b].pc = "status" => Replaced(d)'
                      /\ call'[d][b].pc = "ok" /\ request'[d].kind = "apply" => Replaced(d)'
                      /\ call'[d][b].pc = "act" => request'[d].kind # "apply"
    BY DEF AttemptsReplaced
  <2>1. CASE call'[d][b] = call[d][b]
    BY <1>1, <1>7, <2>1 DEF AttemptsReplaced
  <2>2. CASE d = c /\ b = a
    BY <1>1, <2>2 DEF Replaced
  <2> QED BY <2>1, <2>2
<1> QED BY <1>4, <1>9, <1>10, <1>11, <1>12

(* Each step of an attempt is such a step. *)
LEMMA AgentStepKeeps == ASSUME DockerInv, NEW c \in Clients, NEW a \in Attempts, AgentStep(c, a) PROVE DockerInv'
<1>1. UpdatesTypeOK /\ AsksForKnown /\ AttemptsReplaced
  BY DEF DockerInv, EventsAgree
<1>2. /\ registry \in Images /\ tag \in Images /\ service \in View /\ foreign \in BOOLEAN
      /\ service.id \in Nat /\ service.id >= service.id
  BY <1>1 DEF UpdatesTypeOK, View, Containers
<1>3. ASSUME NEW pc \in CallSteps \ {"status", "ok", "act"}, Reply(c, a, pc), registry' = registry,
             tag' \in Images, UNCHANGED <<service, foreign>>
      PROVE  DockerInv'
  <2>1. /\ call' \in [Clients -> [Attempts -> CallRow]] /\ call'[c][a].pc = pc
        /\ \A d \in Clients, b \in Attempts : call'[d][b] = call[d][b] \/ (d = c /\ b = a)
    BY <1>1, <1>3, AttemptReplies DEF Reply
  <2>2. UNCHANGED <<request, clock, saved, requests>>
    BY <1>3 DEF Reply
  <2> QED BY <1>2, <1>3, <2>1, <2>2, AgentKeeps
<1>4. CASE VerifyRemoteUpdateImage(c, a) \/ PullEnds(c, a) \/ VerifyPulledImage(c, a) \/ VerifyComposeServiceScope(c, a)
  <2>1. {"refused", "error", "pull", "pulled", "scope", "up"} \subseteq CallSteps \ {"status", "ok", "act"}
    BY DEF CallSteps
  <2>2. \E pc \in {"refused", "error", "pull", "pulled", "scope", "up"} : Reply(c, a, pc)
    BY <1>4 DEF VerifyRemoteUpdateImage, PullEnds, VerifyPulledImage, VerifyComposeServiceScope
  <2>3. registry' = registry /\ tag' \in Images /\ UNCHANGED <<service, foreign>>
    BY <1>2, <1>4 DEF VerifyRemoteUpdateImage, PullEnds, VerifyPulledImage, VerifyComposeServiceScope, host
  <2> QED BY <1>3, <2>1, <2>2, <2>3
<1>8. CASE InspectComposeUpdateContainer(c, a)
  <2>1. UNCHANGED <<registry, tag, service, foreign>>
    BY <1>8 DEF InspectComposeUpdateContainer, host
  <2>2. CASE Reply(c, a, "refused") \/ Reply(c, a, "error")
    BY <1>2, <1>3, <2>1, <2>2 DEF CallSteps
  <2>3. CASE /\ call' = [call EXCEPT ![c][a] = [pc |-> "verify", image |-> service.image, replaced |-> FALSE]]
             /\ UNCHANGED <<request, clock, saved, requests>>
    <3>1. PICK next \in CallRow : next = [pc |-> "verify", image |-> service.image, replaced |-> FALSE]
      BY <1>2 DEF CallRow, CallSteps, View
    <3>2. call' = [call EXCEPT ![c][a] = next] /\ next.pc = "verify"
      BY <2>3, <3>1
    <3>3. /\ call' \in [Clients -> [Attempts -> CallRow]] /\ call'[c][a] = next
          /\ \A d \in Clients, b \in Attempts : call'[d][b] = call[d][b] \/ (d = c /\ b = a)
      BY <1>1, <3>2, AttemptSet, Zenon
    <3>4. call'[c][a].pc \notin {"status", "ok", "act"}
      BY <3>2, <3>3
    <3> QED BY <1>2, <2>1, <2>3, <3>3, <3>4, AgentKeeps
  <2> QED BY <1>8, <2>2, <2>3 DEF InspectComposeUpdateContainer
<1>5. CASE RecreateComposeService(c, a)
  <2>1. CASE Reply(c, a, "error") /\ service' = service
    BY <1>2, <1>3, <1>5, <2>1 DEF RecreateComposeService, CallSteps
  <2>2. CASE ~(Reply(c, a, "error") /\ service' = service)
    <3>1. PICK healthy \in BOOLEAN :
            /\ service.id < MaxContainers
            /\ service' = [id |-> service.id + 1, image |-> tag, up |-> healthy]
            /\ call' = [call EXCEPT ![c][a].pc = IF healthy THEN "status" ELSE "error", ![c][a].replaced = TRUE]
      BY <1>5, <2>2 DEF RecreateComposeService
    <3>2. UNCHANGED <<registry, tag, foreign, request, clock, saved, requests>>
      BY <1>5, <2>2 DEF RecreateComposeService
    <3>10. PICK end \in {"status", "error"} : end = IF healthy THEN "status" ELSE "error"
      OBVIOUS
    <3>11. call \in [Clients -> [Attempts -> CallRow]] /\ call[c][a] \in CallRow
      BY <1>1 DEF UpdatesTypeOK, CallRow, CallSteps
    <3>3. PICK next \in CallRow : next = [call[c][a] EXCEPT !.pc = end, !.replaced = TRUE]
      BY <3>11 DEF CallRow, CallSteps
    <3>4. next.pc \notin {"ok", "act"}
      BY <3>3, <3>11 DEF CallRow
    <3>5. call' = [call EXCEPT ![c][a] = next]
      BY <3>1, <3>3, <3>10, <3>11
    <3>6. /\ call' \in [Clients -> [Attempts -> CallRow]] /\ call'[c][a] = next
          /\ \A d \in Clients, b \in Attempts : call'[d][b] = call[d][b] \/ (d = c /\ b = a)
      BY <1>1, <3>5, AttemptSet, Zenon
    <3>7. service' \in View /\ service'.id = service.id + 1
      BY <1>2, <3>1, DockerAssumption DEF View, Containers
    <3>8. request[c].container \in Nat /\ request[c].container <= service.id
      BY <1>1 DEF UpdatesTypeOK, AsksForKnown, Containers
    <3>9. service'.id >= service.id /\ service'.id > request[c].container
      BY <1>2, <3>7, <3>8
    <3> QED BY <1>2, <3>2, <3>4, <3>6, <3>7, <3>9, AgentKeeps
  <2> QED BY <2>1, <2>2
<1>6. CASE InspectUpdatedComposeService(c, a)
  <2>1. CASE Reply(c, a, "error")
    BY <1>2, <1>3, <1>6, <2>1 DEF InspectUpdatedComposeService, CallSteps, host
  <2>2. CASE Reply(c, a, "ok")
    <3>1. /\ call' \in [Clients -> [Attempts -> CallRow]] /\ call'[c][a].pc = "ok"
          /\ \A d \in Clients, b \in Attempts : call'[d][b] = call[d][b] \/ (d = c /\ b = a)
      BY <1>1, <2>2, AttemptReplies DEF Reply, CallSteps
    <3>2. service.id > request[c].container
      BY <1>1, <1>6 DEF InspectUpdatedComposeService, At, AttemptsReplaced, Replaced
    <3>3. UNCHANGED <<registry, tag, service, foreign>> /\ UNCHANGED <<request, clock, saved, requests>>
      BY <1>6, <2>2 DEF InspectUpdatedComposeService, host, Reply
    <3> QED BY <1>2, <3>1, <3>2, <3>3, AgentKeeps
  <2> QED BY <1>6, <2>1, <2>2 DEF InspectUpdatedComposeService
<1>7. CASE AgentDockerLifecycle(c, a)
  <2>1. CASE service' = service /\ \E r \in {"refused", "error"} : Reply(c, a, r)
    BY <1>2, <1>3, <1>7, <2>1 DEF AgentDockerLifecycle, CallSteps
  <2>2. CASE service' = [service EXCEPT !.up = (request[c].kind # "stop")] /\ \E r \in {"ok", "error"} : Reply(c, a, r)
    <3>1. /\ call' \in [Clients -> [Attempts -> CallRow]] /\ call'[c][a].pc \in {"ok", "error"}
          /\ \A d \in Clients, b \in Attempts : call'[d][b] = call[d][b] \/ (d = c /\ b = a)
      <4>1. PICK r \in {"ok", "error"} : Reply(c, a, r)
        BY <2>2
      <4>2. r \in CallSteps /\ call' = [call EXCEPT ![c][a].pc = r]
        BY <4>1 DEF Reply, CallSteps
      <4> QED BY <1>1, <4>1, <4>2, AttemptReplies
    <3>2. request[c].kind # "apply"
      BY <1>1, <1>7 DEF AgentDockerLifecycle, At, AttemptsReplaced
    <3>3. service' \in View /\ service'.id = service.id
      BY <1>2, <2>2 DEF View
    <3>4. UNCHANGED <<registry, tag, foreign>> /\ UNCHANGED <<request, clock, saved, requests>>
      BY <1>7, <2>2 DEF AgentDockerLifecycle, Reply
    <3> QED BY <1>2, <3>1, <3>2, <3>3, <3>4, AgentKeeps
  <2> QED BY <1>7, <2>1, <2>2 DEF AgentDockerLifecycle
<1> QED BY <1>4, <1>5, <1>6, <1>7, <1>8 DEF AgentStep

(***************************************************************************)
(* The events of the saved inventory                                       *)
(***************************************************************************)

LastSays(events, view) ==
  \A i \in 1..Len(events) : (\A j \in (i + 1)..Len(events) : events[j].id # events[i].id) => Says(events[i], view)

LEMMA Concatenation ==
  ASSUME NEW old \in Seq(Event), NEW new \in Seq(Event)
  PROVE  /\ old \o new \in Seq(Event) /\ Len(old \o new) = Len(old) + Len(new)
         /\ \A i \in 1..Len(old) : (old \o new)[i] = old[i]
         /\ \A i \in 1..Len(new) : (old \o new)[Len(old) + i] = new[i]
<1>1. old \o new \in Seq(Event) /\ Len(old \o new) = Len(old) + Len(new)
  OBVIOUS
<1>2. ASSUME NEW i \in 1..Len(old) PROVE (old \o new)[i] = old[i]
  OBVIOUS
<1>3. ASSUME NEW i \in 1..Len(new) PROVE (old \o new)[Len(old) + i] = new[i]
  <2>1. Len(old) + i \in 1..(Len(old) + Len(new)) /\ ~(Len(old) + i <= Len(old)) /\ (Len(old) + i) - Len(old) = i
    OBVIOUS
  <2> QED BY <2>1
<1> QED BY <1>1, <1>2, <1>3

(* Later events about the same container replace what earlier ones say. *)
LEMMA LaterEventsAgree ==
  ASSUME NEW old \in Seq(Event), NEW new \in Seq(Event), NEW before, NEW after, LastSays(old, before), LastSays(new, after),
         \A e \in Event : (\A j \in 1..Len(new) : new[j].id # e.id) /\ Says(e, before) => Says(e, after)
  PROVE  old \o new \in Seq(Event) /\ LastSays(old \o new, after)
<1>1. PICK both \in Seq(Event) : both = old \o new
  BY Concatenation
<1>2. /\ Len(both) = Len(old) + Len(new)
      /\ \A i \in 1..Len(old) : both[i] = old[i]
      /\ \A i \in 1..Len(new) : both[Len(old) + i] = new[i]
  BY <1>1, Concatenation
<1>3. ASSUME NEW i \in 1..Len(both), \A j \in (i + 1)..Len(both) : both[j].id # both[i].id
      PROVE  Says(both[i], after)
  <2>1. CASE i <= Len(old)
    <3>1. i \in 1..Len(old) /\ both[i] = old[i] /\ old[i] \in Event
      BY <1>2, <2>1
    <3>2. ASSUME NEW j \in (i + 1)..Len(old) PROVE old[j].id # old[i].id
      <4>1. j \in (i + 1)..Len(both) /\ both[j] = old[j]
        BY <1>2, <3>1
      <4> QED BY <1>3, <3>1, <4>1
    <3>3. ASSUME NEW j \in 1..Len(new) PROVE new[j].id # old[i].id
      <4>1. Len(old) + j \in (i + 1)..Len(both) /\ both[Len(old) + j] = new[j]
        BY <1>2, <3>1
      <4> QED BY <1>3, <3>1, <4>1
    <3>4. Says(old[i], before)
      BY <3>1, <3>2 DEF LastSays
    <3> QED BY <3>1, <3>3, <3>4
  <2>2. CASE ~(i <= Len(old))
    <3>1. PICK k \in 1..Len(new) : i = Len(old) + k
      <4>1. i - Len(old) \in 1..Len(new) /\ i = Len(old) + (i - Len(old))
        BY <1>2, <2>2
      <4> QED BY <4>1
    <3>2. both[i] = new[k]
      BY <1>2, <3>1
    <3>3. ASSUME NEW j \in (k + 1)..Len(new) PROVE new[j].id # new[k].id
      <4>1. Len(old) + j \in (i + 1)..Len(both) /\ j \in 1..Len(new)
        BY <1>2, <3>1
      <4>2. both[Len(old) + j] = new[j]
        BY <1>2, <4>1
      <4> QED BY <1>3, <3>2, <4>1, <4>2
    <3> QED BY <3>2, <3>3 DEF LastSays
  <2> QED BY <2>1, <2>2
<1> QED BY <1>1, <1>3 DEF LastSays

(* Old events can be dropped. *)
LEMMA LatestEventsAgree ==
  ASSUME NEW events \in Seq(Event), NEW view, NEW n \in 0..Len(events)
  PROVE  \E rest \in Seq(Event) :
           /\ rest = SubSeq(events, n + 1, Len(events)) /\ Len(rest) = Len(events) - n
           /\ \A i \in 1..Len(rest) : \E k \in 1..Len(events) : rest[i] = events[k]
           /\ LastSays(events, view) => LastSays(rest, view)
<1>1. PICK rest \in Seq(Event) : rest = SubSeq(events, n + 1, Len(events))
  <2>1. SubSeq(events, n + 1, Len(events)) \in Seq(Event)
    OBVIOUS
  <2> QED BY <2>1, Zenon
<1>2. Len(rest) = Len(events) - n /\ \A i \in 1..(Len(events) - n) : rest[i] = events[n + i]
  BY <1>1
<1>4. \A i \in 1..Len(rest) : n + i \in 1..Len(events) /\ rest[i] = events[n + i]
  BY <1>2
<1>3. ASSUME LastSays(events, view), NEW i \in 1..Len(rest), \A j \in (i + 1)..Len(rest) : rest[j].id # rest[i].id
      PROVE  Says(rest[i], view)
  <2>1. n + i \in 1..Len(events) /\ rest[i] = events[n + i]
    BY <1>2
  <2>2. ASSUME NEW j \in (n + i + 1)..Len(events) PROVE events[j].id # events[n + i].id
    <3>1. j - n \in (i + 1)..Len(rest) /\ j - n \in 1..(Len(events) - n) /\ n + (j - n) = j
      BY <1>2
    <3>2. rest[j - n] = events[j]
      BY <1>2, <3>1
    <3> QED BY <1>3, <2>1, <3>1, <3>2
  <2> QED BY <1>3, <2>1, <2>2 DEF LastSays
<1>5. LastSays(events, view) => LastSays(rest, view)
  BY <1>3 DEF LastSays
<1> QED BY <1>1, <1>2, <1>4, <1>5

(* The events of one save say what is shown now, and leave what was said    *)
(* of other containers true.                                                *)
LEMMA NewEventsAgree ==
  ASSUME NEW before \in View, NEW after \in View, NEW at \in Nat
  PROVE  \E new \in Seq(Event) :
           /\ new = RecordCurrentContainerEvents(before, after, at) \o RecordRemovedContainerEvents(before, after, at)
           /\ \A j \in 1..Len(new) : Fresh(new[j], after, at)
           /\ \A e \in Event : (\A j \in 1..Len(new) : new[j].id # e.id) /\ Says(e, before) => Says(e, after)
<1>1. before # NoRow.view
  BY DockerAssumption DEF View, Containers, NoRow
<1>2. ASSUME NEW kind \in {"added", "removed", "image", "state"}, NEW view \in View
      PROVE  /\ Happened(view, kind, at) \in Event
             /\ Happened(view, kind, at).at = at
             /\ Happened(view, kind, at).id = view.id /\ Happened(view, kind, at).kind = kind /\ Happened(view, kind, at).up = view.up
  BY DEF Happened, Event, View
<1>3. ASSUME NEW x \in Event
      PROVE  <<x>> \in Seq(Event) /\ Len(<<x>>) = 1 /\ <<x>>[1] = x
  OBVIOUS
<1>4. ASSUME NEW a \in Seq(Event), NEW b \in Seq(Event)
      PROVE  \E new \in Seq(Event) :
               /\ new = a \o b /\ Len(new) = Len(a) + Len(b)
               /\ \A i \in 1..Len(a) : new[i] = a[i]
               /\ \A j \in 1..Len(b) : new[Len(a) + j] = b[j]
  BY Concatenation
<1>5. CASE before.id # after.id
  <2>1. PICK x, y \in Event : x = Happened(after, "added", at) /\ y = Happened(before, "removed", at)
    BY <1>2
  <2>2. /\ x.id = after.id /\ x.kind = "added" /\ x.up = after.up /\ x.at = at
        /\ y.id = before.id /\ y.kind = "removed" /\ y.at = at
    BY <1>2, <2>1
  <2>3. PICK a, b \in Seq(Event) : /\ a = <<x>> /\ Len(a) = 1 /\ a[1] = x
                                   /\ b = <<y>> /\ Len(b) = 1 /\ b[1] = y
    BY <1>3
  <2>4. RecordCurrentContainerEvents(before, after, at) = a /\ RecordRemovedContainerEvents(before, after, at) = b
    BY <1>1, <1>5, <2>1, <2>3 DEF RecordCurrentContainerEvents, RecordRemovedContainerEvents
  <2>5. PICK new \in Seq(Event) : /\ new = a \o b /\ Len(new) = Len(a) + Len(b)
                                  /\ \A i \in 1..Len(a) : new[i] = a[i]
                                  /\ \A j \in 1..Len(b) : new[Len(a) + j] = b[j]
    BY <1>4
  <2>6. Len(new) = 2 /\ new[1] = x /\ new[2] = y
    BY <2>3, <2>5
  <2>7. \A j \in 1..Len(new) : Fresh(new[j], after, at)
    BY <1>5, <2>2, <2>6 DEF Says, Fresh
  <2>8. \A e \in Event : (\A j \in 1..Len(new) : new[j].id # e.id) /\ Says(e, before) => Says(e, after)
    BY <2>2, <2>6 DEF Says
  <2> QED BY <2>4, <2>5, <2>7, <2>8
<1>6. CASE before.id = after.id
  <2>1. PICK x, y \in Event : x = Happened(after, "image", at) /\ y = Happened(after, "state", at)
    BY <1>2
  <2>2. /\ x.id = after.id /\ x.kind = "image" /\ x.up = after.up /\ x.at = at
        /\ y.id = after.id /\ y.kind = "state" /\ y.up = after.up /\ y.at = at
    BY <1>2, <2>1
  <2>3. PICK a \in Seq(Event) : /\ a = IF before.image # after.image THEN <<x>> ELSE <<>>
                                /\ \A i \in 1..Len(a) : a[i] = x
    <3>1. <<>> \in Seq(Event) /\ \A i \in 1..Len(<<>>) : <<>>[i] = x
      OBVIOUS
    <3>2. <<x>> \in Seq(Event) /\ \A i \in 1..Len(<<x>>) : <<x>>[i] = x
      BY <1>3
    <3>3. CASE before.image # after.image
      BY <3>2, <3>3, Zenon
    <3>4. CASE before.image = after.image
      BY <3>1, <3>4, Zenon
    <3> QED BY <3>3, <3>4, Zenon
  <2>4. PICK b \in Seq(Event) : /\ b = IF before.up # after.up THEN <<y>> ELSE <<>>
                                /\ \A i \in 1..Len(b) : b[i] = y
                                /\ Len(b) = 0 => before.up = after.up
    <3>1. <<>> \in Seq(Event) /\ \A i \in 1..Len(<<>>) : <<>>[i] = y
      OBVIOUS
    <3>2. <<y>> \in Seq(Event) /\ Len(<<y>>) # 0 /\ \A i \in 1..Len(<<y>>) : <<y>>[i] = y
      BY <1>3
    <3>3. CASE before.up # after.up
      BY <3>2, <3>3, Zenon
    <3>4. CASE before.up = after.up
      BY <3>1, <3>4, Zenon
    <3> QED BY <3>3, <3>4, Zenon
  <2>5. RecordCurrentContainerEvents(before, after, at) = a \o b /\ RecordRemovedContainerEvents(before, after, at) = <<>>
    BY <1>1, <1>6, <2>1, <2>3, <2>4 DEF RecordCurrentContainerEvents, RecordRemovedContainerEvents
  <2>6. PICK new \in Seq(Event) : /\ new = a \o b /\ Len(new) = Len(a) + Len(b)
                                  /\ \A i \in 1..Len(a) : new[i] = a[i]
                                  /\ \A j \in 1..Len(b) : new[Len(a) + j] = b[j]
    BY <1>4
  <2>7. ASSUME NEW i \in 1..Len(new) PROVE new[i] \in {x, y}
    <3>1. CASE i <= Len(a)
      BY <2>3, <2>6, <3>1
    <3>2. CASE ~(i <= Len(a))
      <4>1. i - Len(a) \in 1..Len(b) /\ Len(a) + (i - Len(a)) = i
        BY <2>6, <3>2
      <4> QED BY <2>4, <2>6, <4>1
    <3> QED BY <3>1, <3>2
  <2>8. \A j \in 1..Len(new) : Fresh(new[j], after, at)
    BY <2>2, <2>7 DEF Says, Fresh
  <2>9. \A e \in Event : (\A j \in 1..Len(new) : new[j].id # e.id) /\ Says(e, before) => Says(e, after)
    <3> SUFFICES ASSUME NEW e \in Event, \A j \in 1..Len(new) : new[j].id # e.id, Says(e, before)
                 PROVE  Says(e, after)
      OBVIOUS
    <3>1. CASE Len(new) = 0
      <4>1. Len(b) = 0
        BY <2>6, <3>1
      <4> QED BY <1>6, <2>4, <4>1 DEF Says
    <3>2. CASE Len(new) # 0
      <4>1. 1 \in 1..Len(new)
        BY <3>2
      <4>2. new[1].id = after.id
        BY <2>2, <2>7, <4>1
      <4> QED BY <1>6, <4>1, <4>2 DEF Says
    <3> QED BY <3>1, <3>2
  <2>10. new = RecordCurrentContainerEvents(before, after, at) \o RecordRemovedContainerEvents(before, after, at)
    <3>1. new \o <<>> = new
      OBVIOUS
    <3> QED BY <2>5, <2>6, <3>1
  <2> QED BY <2>8, <2>9, <2>10
<1> QED BY <1>5, <1>6

(* What a save writes: capped, and in agreement with the view beside it if  *)
(* the events before it were; the new events have the time of the save.     *)
LEMMA SavedEventsAgree ==
  ASSUME NEW next, next.view \in View \cup {NoRow.view}, next.events \in Seq(Event),
         NEW agreed \in BOOLEAN, agreed => LastSays(next.events, next.view),
         next.view = NoRow.view => next.events = <<>>, NEW after \in View, NEW at \in Nat
  PROVE  \E events \in Seq(Event) :
           /\ events = UpdateDockerInventoryEvents(next, after, at) /\ Len(events) <= MaxEvents
           /\ agreed => LastSays(events, after)
           /\ \A i \in 1..Len(events) :
                (\E k \in 1..Len(next.events) : events[i] = next.events[k]) \/ Fresh(events[i], after, at)
<1>1. PICK old \in Seq(Event) : old = next.events
  OBVIOUS
<1>2. PICK events \in Seq(Event) :
        /\ events = AllEvents(next, after, at) /\ (agreed => LastSays(events, after))
        /\ \A i \in 1..Len(events) : (\E k \in 1..Len(old) : events[i] = old[k]) \/ Fresh(events[i], after, at)
  <2>1. CASE next.view = NoRow.view
    <3>1. RecordCurrentContainerEvents(next.view, after, at) = <<>> /\ RecordRemovedContainerEvents(next.view, after, at) = <<>>
      BY <2>1 DEF RecordCurrentContainerEvents, RecordRemovedContainerEvents
    <3>2. AllEvents(next, after, at) = <<>> /\ <<>> \in Seq(Event) /\ Len(<<>>) = 0
      BY <2>1, <3>1 DEF AllEvents
    <3>3. LastSays(<<>>, after)
      BY DEF LastSays
    <3>4. PICK none \in Seq(Event) : none = <<>> /\ Len(none) = 0
      BY <3>2
    <3>5. \A i \in 1..Len(none) : (\E k \in 1..Len(old) : none[i] = old[k]) \/ Fresh(none[i], after, at)
      BY <3>4
    <3> QED BY <3>2, <3>3, <3>4, <3>5
  <2>2. CASE next.view # NoRow.view
    <3>1. PICK before \in View : before = next.view
      BY <2>2
    <3>2. PICK new \in Seq(Event) :
            /\ new = RecordCurrentContainerEvents(before, after, at) \o RecordRemovedContainerEvents(before, after, at)
            /\ \A j \in 1..Len(new) : Fresh(new[j], after, at)
            /\ \A e \in Event : (\A j \in 1..Len(new) : new[j].id # e.id) /\ Says(e, before) => Says(e, after)
      BY NewEventsAgree
    <3>3. LastSays(new, after)
      BY <3>2 DEF LastSays, Fresh
    <3>4. PICK both \in Seq(Event) :
            /\ both = old \o new /\ Len(both) = Len(old) + Len(new)
            /\ \A i \in 1..Len(old) : both[i] = old[i]
            /\ \A i \in 1..Len(new) : both[Len(old) + i] = new[i]
      BY Concatenation
    <3>5. agreed => LastSays(both, after)
      BY <1>1, <3>1, <3>2, <3>3, <3>4, LaterEventsAgree
    <3>6. AllEvents(next, after, at) = both
      BY <1>1, <3>1, <3>2, <3>4 DEF AllEvents
    <3>7. ASSUME NEW i \in 1..Len(both) PROVE (\E k \in 1..Len(old) : both[i] = old[k]) \/ Fresh(both[i], after, at)
      <4>1. CASE i \in 1..Len(old)
        BY <3>4, <4>1
      <4>2. CASE i \notin 1..Len(old)
        <5>1. i - Len(old) \in 1..Len(new) /\ Len(old) + (i - Len(old)) = i
          BY <3>4, <4>2
        <5> QED BY <3>2, <3>4, <5>1
      <4> QED BY <4>1, <4>2
    <3> QED BY <3>5, <3>6, <3>7
  <2> QED BY <2>1, <2>2
<1>3. PICK surplus \in 0..Len(events) : surplus = IF Len(events) > MaxEvents THEN Len(events) - MaxEvents ELSE 0
  BY DockerAssumption
<1>4. UpdateDockerInventoryEvents(next, after, at) = SubSeq(events, surplus + 1, Len(events))
  BY <1>2, <1>3 DEF UpdateDockerInventoryEvents
<1>5. Len(events) - surplus <= MaxEvents
  BY <1>3, DockerAssumption
<1>6. PICK rest \in Seq(Event) :
        /\ rest = SubSeq(events, surplus + 1, Len(events)) /\ Len(rest) = Len(events) - surplus
        /\ \A i \in 1..Len(rest) : \E k \in 1..Len(events) : rest[i] = events[k]
        /\ LastSays(events, after) => LastSays(rest, after)
  BY LatestEventsAgree
<1>7. ASSUME NEW i \in 1..Len(rest) PROVE (\E k \in 1..Len(old) : rest[i] = old[k]) \/ Fresh(rest[i], after, at)
  BY <1>2, <1>6
<1>8. \A i \in 1..Len(rest) : (\E k \in 1..Len(next.events) : rest[i] = next.events[k]) \/ Fresh(rest[i], after, at)
  BY <1>1, <1>7
<1>9. /\ rest = UpdateDockerInventoryEvents(next, after, at) /\ Len(rest) <= MaxEvents
      /\ agreed => LastSays(rest, after)
  BY <1>2, <1>4, <1>5, <1>6
<1> QED BY <1>8, <1>9

(* A step of a request: it goes on, is answered, or calls the agent. *)
LEMMA RequestKeeps ==
  ASSUME DockerInv, NEW c \in Clients,
         request' \in [Clients -> RequestRow], \A d \in Clients \ {c} : request'[d] = request[d],
         request'[c].kind = request[c].kind, request'[c].container = request[c].container,
         call' \in [Clients -> [Attempts -> CallRow]],
         \A d \in Clients, b \in Attempts : call'[d][b] = call[d][b] \/ (d = c /\ call'[d][b].pc = FirstCall(c)),
         request'[c].answer = "ok" /\ request[c].kind = "apply" => Replaced(c),
         request'[c].pc = "audit" => Replaced(c),
         request'[c].pc \in {"refresh", "save"} /\ request[c].kind = "apply" => Replaced(c),
         request'[c].pc = "save" => request'[c].seen \in View,
         audit' \in {audit, audit \cup {request[c].container}}, audit' # audit => Replaced(c),
         EventsAgree', NothingSaved', Timed', UNCHANGED host
  PROVE  DockerInv'
<1> USE DEF DockerInv
<1>1. UNCHANGED <<registry, tag, service, foreign>>
  BY DEF host
<1>2. \A d \in Clients : request'[d].kind = request[d].kind /\ request'[d].container = request[d].container
  OBVIOUS
<1>3. \A d \in Clients : Replaced(d)' <=> Replaced(d)
  BY <1>1, <1>2 DEF Replaced
<1>4. SuccessReplaced'
  <2>1. \A id \in audit' : service'.id > id
    BY <1>1 DEF SuccessReplaced, Replaced
  <2>2. \A d \in Clients : request'[d].kind = "apply" /\ request'[d].answer = "ok" => Replaced(d)
    BY DEF SuccessReplaced, Replaced
  <2> QED BY <1>1, <1>2, <2>1, <2>2 DEF SuccessReplaced, Replaced
<1>5. AsksForKnown'
  BY <1>1, <1>2 DEF AsksForKnown
<1>6. RequestsReplaced'
  <2> SUFFICES ASSUME NEW d \in Clients
               PROVE  /\ request'[d].pc = "audit" => Replaced(d)
                      /\ request'[d].pc \in {"refresh", "save"} /\ request'[d].kind = "apply" => Replaced(d)
                      /\ request'[d].pc = "save" => request'[d].seen \in View
    BY <1>3 DEF RequestsReplaced
  <2> QED BY DEF RequestsReplaced
<1>7. AttemptsReplaced'
  <2> SUFFICES ASSUME NEW d \in Clients, NEW b \in Attempts
               PROVE  /\ call'[d][b].pc = "status" => Replaced(d)
                      /\ call'[d][b].pc = "ok" /\ request'[d].kind = "apply" => Replaced(d)
                      /\ call'[d][b].pc = "act" => request'[d].kind # "apply"
    BY <1>3 DEF AttemptsReplaced
  <2>1. CASE call'[d][b] = call[d][b]
    BY <1>2, <2>1 DEF AttemptsReplaced
  <2>2. CASE d = c /\ call'[d][b].pc = FirstCall(c)
    BY <1>2, <2>2 DEF FirstCall
  <2> QED BY <2>1, <2>2
<1> QED BY <1>4, <1>5, <1>6, <1>7

(* The steps of a request write its step and at most one other field. *)
RequestSteps == {"idle", "discover", "check", "call", "audit", "refresh", "save"}
Kept(c) ==
  /\ request' \in [Clients -> RequestRow] /\ \A d \in Clients \ {c} : request'[d] = request[d]
  /\ request'[c].kind = request[c].kind /\ request'[c].container = request[c].container

LEMMA StepSet ==
  ASSUME UpdatesTypeOK, NEW c \in Clients, NEW pc \in RequestSteps, Goto(c, pc)
  PROVE  Kept(c) /\ request'[c].pc = pc /\ request'[c].answer = request[c].answer /\ request'[c].seen = request[c].seen
<1>1. request \in [Clients -> RequestRow] /\ request[c] \in RequestRow
  BY DEF UpdatesTypeOK, RequestRow
<1>2. PICK next : next = [request[c] EXCEPT !.pc = pc]
  OBVIOUS
<1>3. /\ next \in RequestRow /\ next.kind = request[c].kind /\ next.container = request[c].container
      /\ next.pc = pc /\ next.answer = request[c].answer /\ next.seen = request[c].seen
  BY <1>1, <1>2 DEF RequestRow, RequestSteps
<1>4. request' = [request EXCEPT ![c] = next]
  BY <1>2 DEF Goto
<1>5. request' \in [Clients -> RequestRow] /\ request'[c] = next /\ \A d \in Clients \ {c} : request'[d] = request[d]
  BY <1>1, <1>3, <1>4
<1> QED BY <1>3, <1>5 DEF Kept

LEMMA AnswerSet ==
  ASSUME UpdatesTypeOK, NEW c \in Clients, NEW answer \in {"none", "ok", "refused", "failed"}, Answer(c, answer)
  PROVE  Kept(c) /\ request'[c].pc = "idle" /\ request'[c].answer = answer
<1>1. request \in [Clients -> RequestRow] /\ request[c] \in RequestRow
  BY DEF UpdatesTypeOK, RequestRow
<1>2. PICK next : next = [request[c] EXCEPT !.pc = "idle", !.answer = answer]
  OBVIOUS
<1>3. /\ next \in RequestRow /\ next.kind = request[c].kind /\ next.container = request[c].container
      /\ next.pc = "idle" /\ next.answer = answer
  BY <1>1, <1>2 DEF RequestRow
<1>4. request' = [request EXCEPT ![c] = next]
  BY <1>1, <1>2 DEF Answer
<1>5. request' \in [Clients -> RequestRow] /\ request'[c] = next /\ \A d \in Clients \ {c} : request'[d] = request[d]
  BY <1>1, <1>3, <1>4
<1> QED BY <1>3, <1>5 DEF Kept

LEMMA SeenSet ==
  ASSUME UpdatesTypeOK, NEW c \in Clients, NEW view \in View, NEW at \in Nat,
         request' = [request EXCEPT ![c].pc = "save", ![c].seen = view, ![c].at = at]
  PROVE  /\ Kept(c) /\ request'[c].pc = "save" /\ request'[c].answer = request[c].answer
         /\ request'[c].seen = view /\ request'[c].at = at
<1>1. request \in [Clients -> RequestRow] /\ request[c] \in RequestRow
  BY DEF UpdatesTypeOK, RequestRow
<1>2. PICK next : next = [request[c] EXCEPT !.pc = "save", !.seen = view, !.at = at]
  OBVIOUS
<1>3. /\ next \in RequestRow /\ next.kind = request[c].kind /\ next.container = request[c].container
      /\ next.pc = "save" /\ next.answer = request[c].answer /\ next.seen = view /\ next.at = at
  BY <1>1, <1>2 DEF RequestRow
<1>4. request' = [request EXCEPT ![c] = next]
  BY <1>1, <1>2
<1>5. request' \in [Clients -> RequestRow] /\ request'[c] = next /\ \A d \in Clients \ {c} : request'[d] = request[d]
  BY <1>1, <1>3, <1>4
<1> QED BY <1>3, <1>5 DEF Kept

LEMMA SendSet ==
  ASSUME UpdatesTypeOK, NEW c \in Clients, NEW a \in Attempts, Send(c, a)
  PROVE  /\ Kept(c) /\ request'[c].pc = "call" /\ request'[c].answer = request[c].answer
         /\ call' \in [Clients -> [Attempts -> CallRow]]
         /\ \A d \in Clients, b \in Attempts : call'[d][b] = call[d][b] \/ (d = c /\ call'[d][b].pc = FirstCall(c))
<1>1. request \in [Clients -> RequestRow] /\ request[c] \in RequestRow
  BY DEF UpdatesTypeOK, RequestRow
<1>2. PICK next : next = [request[c] EXCEPT !.pc = "call", !.attempt = a]
  OBVIOUS
<1>3. /\ next \in RequestRow /\ next.kind = request[c].kind /\ next.container = request[c].container
      /\ next.pc = "call" /\ next.answer = request[c].answer
  BY <1>1, <1>2 DEF RequestRow
<1>4. request' = [request EXCEPT ![c] = next]
  BY <1>1, <1>2 DEF Send
<1>5. request' \in [Clients -> RequestRow] /\ request'[c] = next /\ \A d \in Clients \ {c} : request'[d] = request[d]
  BY <1>1, <1>3, <1>4
<1>6. Kept(c) /\ request'[c].pc = "call" /\ request'[c].answer = request[c].answer
  BY <1>3, <1>5 DEF Kept
<1>7. PICK pc \in CallSteps : pc = FirstCall(c)
  BY DEF FirstCall, CallSteps
<1>8. call' = [call EXCEPT ![c][a].pc = pc]
  BY <1>7 DEF Send
<1>9. /\ call' \in [Clients -> [Attempts -> CallRow]] /\ call'[c][a].pc = pc
      /\ \A d \in Clients, b \in Attempts : call'[d][b] = call[d][b] \/ (d = c /\ b = a)
  BY <1>8, AttemptReplies
<1> QED BY <1>6, <1>7, <1>9

(* Time goes on with a collection only. *)
Ticked(c) ==
  \/ clock' = clock /\ request'[c].pc # "save"
  \/ clock' = clock + 1 /\ request'[c].at = clock + 1
LEMMA TimeKeeps ==
  ASSUME UpdatesTypeOK, Timed, NEW c \in Clients, Kept(c), Ticked(c), inventory' = inventory
  PROVE  Timed' /\ clock' \in Nat
<1>1. clock \in Nat /\ clock' \in Nat /\ clock' >= clock
  BY DEF UpdatesTypeOK, Ticked
<1>2. \A d \in Clients : request[d].at \in Nat
  BY DEF UpdatesTypeOK
<1>3. /\ \A d \in Clients \ {c} : request'[d] = request[d]
      /\ request'[c].pc = "save" => clock' = clock + 1 /\ request'[c].at = clock + 1
  BY DEF Kept, Ticked
<1>4. RequestsTimed'
  <2> SUFFICES ASSUME NEW d \in Clients, request'[d].pc = "save"
               PROVE  /\ request'[d].at <= clock'
                      /\ \A e \in Clients \ {d} : request'[e].pc = "save" => request'[e].at # request'[d].at
    BY DEF RequestsTimed
  <2>1. CASE d = c
    BY <1>1, <1>2, <1>3, <2>1 DEF Timed, RequestsTimed
  <2>2. CASE d # c
    BY <1>1, <1>2, <1>3, <2>2 DEF Timed, RequestsTimed
  <2> QED BY <2>1, <2>2
<1>5. EventsTimed'
  <2>1. \A i \in 1..Len(inventory.events) : inventory.events[i].at \in Nat
    <3>1. \A i \in 1..Len(inventory.events) : inventory.events[i] \in Event
      BY DEF UpdatesTypeOK
    <3> QED BY <3>1 DEF Event
  <2> SUFFICES ASSUME NEW i \in 1..Len(inventory.events)
               PROVE  /\ inventory.events[i].at <= clock'
                      /\ \A d \in Clients : request'[d].pc = "save" => request'[d].at # inventory.events[i].at
    BY DEF EventsTimed
  <2> QED BY <1>1, <1>3, <2>1 DEF Timed, EventsTimed
<1>6. Tied(inventory'.events)
  BY DEF Timed
<1> QED BY <1>1, <1>4, <1>5, <1>6 DEF Timed

(* A step of a request that writes neither the inventory nor the host. *)
LEMMA HandlerKeeps ==
  ASSUME DockerInv, NEW c \in Clients, Kept(c),
         call' \in [Clients -> [Attempts -> CallRow]],
         \A d \in Clients, b \in Attempts : call'[d][b] = call[d][b] \/ (d = c /\ call'[d][b].pc = FirstCall(c)),
         request'[c].answer = "ok" /\ request[c].kind = "apply" => Replaced(c),
         request'[c].pc = "audit" => Replaced(c),
         request'[c].pc \in {"refresh", "save"} /\ request[c].kind = "apply" => Replaced(c),
         request'[c].pc = "save" => request'[c].seen \in View,
         audit' \in {audit, audit \cup {request[c].container}}, audit' # audit => Replaced(c),
         Ticked(c), UNCHANGED <<host, inventory, resorted, requests>>
  PROVE  DockerInv'
<1>1. UpdatesTypeOK
  BY DEF DockerInv, EventsAgree
<1>2. UNCHANGED <<registry, tag, service, foreign>> /\ UNCHANGED <<inventory, resorted, requests>> /\ UNCHANGED host
  BY DEF host
<1>6. Timed' /\ clock' \in Nat
  BY <1>1, <1>2, TimeKeeps DEF DockerInv
<1>3. audit' \subseteq Containers
  BY <1>1 DEF UpdatesTypeOK
<1>4. UpdatesTypeOK'
  BY <1>1, <1>2, <1>3, <1>6 DEF UpdatesTypeOK, Kept, RequestRow, CallRow, CallSteps
<1>5. EventsAgree' /\ NothingSaved'
  BY <1>2, <1>4 DEF DockerInv, EventsAgree, NothingSaved
<1> QED BY <1>2, <1>5, <1>6, RequestKeeps DEF Kept

(* The same for a step that leaves the attempts and the audit log alone. *)
LEMMA QuietHandlerKeeps ==
  ASSUME DockerInv, NEW c \in Clients, Kept(c),
         request'[c].answer = "ok" /\ request[c].kind = "apply" => Replaced(c),
         request'[c].pc = "audit" => Replaced(c),
         request'[c].pc \in {"refresh", "save"} /\ request[c].kind = "apply" => Replaced(c),
         request'[c].pc = "save" => request'[c].seen \in View,
         Ticked(c), UNCHANGED <<host, call, saved, requests>>
  PROVE  DockerInv'
<1>1. call' = call /\ audit' = audit /\ UNCHANGED <<host, inventory, resorted, requests>>
  BY DEF saved
<1>2. call \in [Clients -> [Attempts -> CallRow]]
  BY DEF DockerInv, EventsAgree, UpdatesTypeOK, CallRow, CallSteps
<1> QED BY <1>1, <1>2, HandlerKeeps

(* The steps of a handler before, during and after its call. *)
LEMMA HandlerSteps ==
  ASSUME DockerInv, NEW c \in Clients,
         Discover(c) \/ ValidateFreshImageUpdateCheck(c) \/ ClientReceives(c) \/ AppendAudit(c) \/ Refresh(c)
  PROVE  DockerInv'
<1>1. UpdatesTypeOK /\ SuccessReplaced /\ AttemptsReplaced /\ RequestsReplaced
  BY DEF DockerInv, EventsAgree
<1>2. /\ request[c].answer = "ok" /\ request[c].kind = "apply" => Replaced(c)
      /\ request[c].attempt \in Attempts /\ service \in View
  BY <1>1 DEF SuccessReplaced, Replaced, UpdatesTypeOK
<1>3. 1 \in Attempts /\ \A a \in Attempts : a <= MaxRetries => a + 1 \in Attempts
  BY DockerAssumption DEF Attempts
<1>4. ASSUME NEW answer \in {"ok", "refused", "failed"}, answer = "ok" /\ request[c].kind = "apply" => Replaced(c),
             Answer(c, answer), UNCHANGED <<host, call, clock, saved, requests>>
      PROVE  DockerInv'
  <2>1. Kept(c) /\ request'[c].pc = "idle" /\ request'[c].answer = answer
    BY <1>1, <1>4, AnswerSet
  <2>2. Ticked(c)
    BY <1>4, <2>1 DEF Ticked
  <2> QED BY <1>4, <2>1, <2>2, QuietHandlerKeeps
<1>5. ASSUME NEW a \in Attempts, Send(c, a), UNCHANGED <<host, clock, saved, requests>>
      PROVE  DockerInv'
  <2>1. /\ Kept(c) /\ request'[c].pc = "call" /\ request'[c].answer = request[c].answer
        /\ call' \in [Clients -> [Attempts -> CallRow]]
        /\ \A d \in Clients, b \in Attempts : call'[d][b] = call[d][b] \/ (d = c /\ call'[d][b].pc = FirstCall(c))
    BY <1>1, <1>5, SendSet
  <2>2. audit' = audit /\ UNCHANGED <<host, inventory, resorted, requests>> /\ Ticked(c)
    BY <1>5, <2>1 DEF saved, Ticked
  <2> QED BY <1>2, <2>1, <2>2, HandlerKeeps
<1>6. ASSUME request[c].kind # "apply" \/ Replaced(c), Collect(c), UNCHANGED <<host, saved, requests>>
      PROVE  DockerInv'
  <2>1. clock + 1 \in Nat
    BY <1>1 DEF UpdatesTypeOK
  <2>2. PICK view \in View, now \in Nat : view = AgentDockerContainers /\ now = clock + 1
    BY <1>2, <2>1 DEF AgentDockerContainers
  <2>3. /\ request' = [request EXCEPT ![c].pc = "save", ![c].seen = view, ![c].at = now]
        /\ clock' = clock + 1 /\ UNCHANGED <<host, call, saved, requests>>
    BY <1>6, <2>2 DEF Collect
  <2>4. /\ Kept(c) /\ request'[c].pc = "save" /\ request'[c].answer = request[c].answer
        /\ request'[c].seen = view /\ request'[c].at = now
    BY <1>1, <2>3, SeenSet
  <2>5. Ticked(c)
    BY <2>2, <2>3, <2>4 DEF Ticked
  <2> QED BY <1>2, <1>6, <2>3, <2>4, <2>5, QuietHandlerKeeps
<1>7. ASSUME NEW pc \in {"check", "audit", "refresh"}, Goto(c, pc),
             pc = "audit" => Replaced(c), pc = "refresh" /\ request[c].kind = "apply" => Replaced(c),
             UNCHANGED <<host, call, clock, saved, requests>>
      PROVE  DockerInv'
  <2>1. Kept(c) /\ request'[c].pc = pc /\ request'[c].answer = request[c].answer
    BY <1>1, <1>7, StepSet DEF RequestSteps
  <2>2. Ticked(c)
    BY <1>7, <2>1 DEF Ticked
  <2> QED BY <1>2, <1>7, <2>1, <2>2, QuietHandlerKeeps
<1>8. CASE Discover(c)
  <2>1. UNCHANGED <<host, saved, requests>>
    BY <1>8 DEF Discover
  <2>2. CASE clock' = clock /\ Send(c, 1)
    BY <1>3, <1>5, <2>1, <2>2
  <2>3. CASE request[c].kind = "discover" /\ Collect(c)
    BY <1>6, <2>1, <2>3
  <2>4. CASE clock' = clock /\ call' = call /\ (Answer(c, "refused") \/ Answer(c, "failed"))
    BY <1>4, <2>1, <2>4
  <2>6. CASE clock' = clock /\ call' = call /\ request[c].kind = "discover" /\ Answer(c, "ok")
    BY <1>4, <2>1, <2>6
  <2>5. CASE clock' = clock /\ call' = call /\ Goto(c, "check")
    BY <1>7, <2>1, <2>5
  <2> QED BY <1>8, <2>2, <2>3, <2>4, <2>5, <2>6 DEF Discover
<1>9. CASE ValidateFreshImageUpdateCheck(c)
  <2>1. UNCHANGED <<host, clock, saved, requests>>
    BY <1>9 DEF ValidateFreshImageUpdateCheck
  <2>2. CASE Send(c, 1)
    BY <1>3, <1>5, <2>1, <2>2
  <2>3. CASE call' = call /\ (Answer(c, "refused") \/ Answer(c, "failed"))
    BY <1>4, <2>1, <2>3
  <2> QED BY <1>9, <2>2, <2>3 DEF ValidateFreshImageUpdateCheck
<1>10. CASE ClientReceives(c)
  <2>1. PICK a \in Attempts : a = request[c].attempt
    BY <1>2
  <2>2. UNCHANGED <<host, clock, saved, requests>>
    BY <1>10 DEF ClientReceives
  <2>3. CASE /\ call[c][a].pc = "ok" /\ call' = call
             /\ Goto(c, IF request[c].kind = "apply" THEN "audit" ELSE "refresh")
    <3>1. request[c].kind = "apply" => Replaced(c)
      BY <1>1, <2>3 DEF AttemptsReplaced
    <3> QED BY <1>7, <2>2, <2>3, <3>1
  <2>4. CASE call' = call /\ Answer(c, IF request[c].kind = "apply" THEN "refused" ELSE "failed")
    BY <1>4, <2>2, <2>4
  <2>5. CASE call' = call /\ Answer(c, "failed")
    BY <1>4, <2>2, <2>5
  <2>6. CASE a <= MaxRetries /\ Send(c, a + 1)
    BY <1>3, <1>5, <2>2, <2>6
  <2> QED BY <1>10, <2>1, <2>3, <2>4, <2>5, <2>6 DEF ClientReceives
<1>11. CASE AppendAudit(c)
  <2>1. Kept(c) /\ request'[c].pc = "refresh" /\ request'[c].answer = request[c].answer
    BY <1>1, <1>11, StepSet DEF AppendAudit, RequestSteps
  <2>2. Replaced(c)
    BY <1>1, <1>11 DEF AppendAudit, RequestsReplaced
  <2>3. /\ call' = call /\ UNCHANGED <<host, inventory, resorted, requests>>
        /\ audit' \in {audit, audit \cup {request[c].container}} /\ Ticked(c)
    BY <1>11, <2>1 DEF AppendAudit, Ticked
  <2>4. call \in [Clients -> [Attempts -> CallRow]]
    BY <1>1 DEF UpdatesTypeOK, CallRow, CallSteps
  <2> QED BY <1>2, <2>1, <2>2, <2>3, <2>4, HandlerKeeps
<1>12. CASE Refresh(c)
  <2>1. UNCHANGED <<host, saved, requests>> /\ (request[c].kind = "apply" => Replaced(c))
    BY <1>1, <1>12 DEF Refresh, RequestsReplaced
  <2>2. CASE Collect(c)
    BY <1>6, <2>1, <2>2
  <2>3. CASE Answer(c, "ok") /\ UNCHANGED <<call, clock>>
    BY <1>4, <2>1, <2>3
  <2> QED BY <1>12, <2>2, <2>3 DEF Refresh
<1> QED BY <1>8, <1>9, <1>10, <1>11, <1>12

(* EventsAgree in terms of what the last event about a container says. *)
LEMMA AgreeIsLastSays ==
  ASSUME UpdatesTypeOK
  PROVE  EventsAgree <=> (resorted \/ LastSays(inventory.events, inventory.view))
<1>1. DOMAIN inventory.events = 1..Len(inventory.events)
  BY DEF UpdatesTypeOK
<1>2. EventsAgree => (resorted \/ LastSays(inventory.events, inventory.view))
  BY <1>1 DEF EventsAgree, LastSays, Says
<1>3. (resorted \/ LastSays(inventory.events, inventory.view)) => EventsAgree
  BY <1>1 DEF EventsAgree, LastSays, Says
<1> QED BY <1>2, <1>3

(* Saved events stay tied and timed when those of one save join them. *)
LEMMA SavedStayTimed ==
  ASSUME UpdatesTypeOK, Timed, NEW c \in Clients, Kept(c), request[c].pc = "save", request'[c].pc # "save", clock' = clock,
         NEW events \in Seq(Event), inventory'.events = events, NEW view,
         \A i \in 1..Len(events) :
           (\E k \in 1..Len(inventory.events) : events[i] = inventory.events[k]) \/ Fresh(events[i], view, request[c].at)
  PROVE  Timed'
<1>1. clock \in Nat /\ request[c].at \in Nat /\ request[c].at <= clock
  BY DEF UpdatesTypeOK, Timed, RequestsTimed
<1>2. \A d \in Clients : request'[d].pc = "save" => d # c /\ request'[d] = request[d] /\ request[d].at # request[c].at
  BY DEF Kept, Timed, RequestsTimed
<1>3. RequestsTimed'
  BY <1>2 DEF Timed, RequestsTimed
<1>4. EventsTimed'
  <2> SUFFICES ASSUME NEW i \in 1..Len(events)
               PROVE  /\ events[i].at <= clock
                      /\ \A d \in Clients : request'[d].pc = "save" => request'[d].at # events[i].at
    BY DEF EventsTimed
  <2>1. CASE \E k \in 1..Len(inventory.events) : events[i] = inventory.events[k]
    BY <1>2, <2>1 DEF Timed, EventsTimed
  <2>2. CASE Fresh(events[i], view, request[c].at)
    BY <1>1, <1>2, <2>2 DEF Fresh
  <2> QED BY <2>1, <2>2
<1>5. Tied(events)
  <2> SUFFICES ASSUME NEW i \in 1..Len(events), NEW j \in 1..Len(events),
                      events[i].at = events[j].at, events[i].id = events[j].id
               PROVE  /\ events[i].kind = "removed" <=> events[j].kind = "removed"
                      /\ events[i].kind # "removed" => events[i].up = events[j].up
    BY DEF Tied
  <2>1. \A k \in 1..Len(inventory.events) : inventory.events[k].at # request[c].at
    BY DEF Timed, EventsTimed
  <2>2. CASE Fresh(events[i], view, request[c].at) /\ Fresh(events[j], view, request[c].at)
    BY <2>2 DEF Fresh, Says
  <2>3. CASE ~Fresh(events[i], view, request[c].at) \/ ~Fresh(events[j], view, request[c].at)
    <3>1. PICK k, l \in 1..Len(inventory.events) : events[i] = inventory.events[k] /\ events[j] = inventory.events[l]
      BY <2>1, <2>3 DEF Fresh
    <3> QED BY <3>1 DEF Timed, Tied
  <2> QED BY <2>2, <2>3
<1> QED BY <1>3, <1>4, <1>5 DEF Timed

(* A save, with or without success. *)
LEMMA SaveKeeps == ASSUME DockerInv, NEW c \in Clients, SaveTargetDockerInventory(c) PROVE DockerInv'
<1>1. UpdatesTypeOK /\ RequestsReplaced /\ NothingSaved /\ Timed
  BY DEF DockerInv, EventsAgree
<1>2. /\ request[c].pc = "save" /\ request[c].seen \in View
      /\ request[c].kind = "apply" => Replaced(c)
      /\ UNCHANGED <<host, call, clock, audit, resorted, requests>>
  BY <1>1 DEF SaveTargetDockerInventory, RequestsReplaced
<1>3. \E answer \in {"ok", "failed"} : Answer(c, answer)
  BY DEF SaveTargetDockerInventory
<1>4. Kept(c) /\ request'[c].pc = "idle"
  BY <1>1, <1>3, AnswerSet
<1>5. CASE inventory' = inventory
  <2>1. UNCHANGED <<host, call, saved, requests>> /\ Ticked(c)
    BY <1>2, <1>4, <1>5 DEF saved, Ticked
  <2> QED BY <1>2, <1>4, <2>1, QuietHandlerKeeps
<1>6. CASE inventory' = [view |-> request[c].seen,
                         events |-> UpdateDockerInventoryEvents(inventory, request[c].seen, request[c].at)]
  <2>1. PICK view \in View, at \in Nat : view = request[c].seen /\ at = request[c].at
    BY <1>1, <1>2 DEF UpdatesTypeOK
  <2>2. PICK agreed \in BOOLEAN : agreed <=> ~resorted
    BY <1>1 DEF UpdatesTypeOK
  <2>3. agreed => LastSays(inventory.events, inventory.view)
    BY <1>1, <2>2, AgreeIsLastSays DEF DockerInv
  <2>4. /\ inventory.view \in View \cup {NoRow.view} /\ inventory.events \in Seq(Event)
        /\ inventory.view = NoRow.view => inventory.events = <<>>
    BY <1>1 DEF UpdatesTypeOK, NothingSaved
  <2>5. PICK events \in Seq(Event) :
          /\ events = UpdateDockerInventoryEvents(inventory, view, at) /\ Len(events) <= MaxEvents
          /\ agreed => LastSays(events, view)
          /\ \A i \in 1..Len(events) :
               (\E k \in 1..Len(inventory.events) : events[i] = inventory.events[k]) \/ Fresh(events[i], view, at)
    BY <2>3, <2>4, SavedEventsAgree
  <2>6. /\ inventory'.view = view /\ inventory'.events = events
        /\ inventory' \in [view : View \cup {NoRow.view}, events : Seq(Event)]
    BY <1>6, <2>1, <2>5
  <2>7. UNCHANGED <<registry, tag, service, foreign>>
    BY <1>2 DEF host
  <2>8. UpdatesTypeOK'
    BY <1>1, <1>2, <1>4, <2>5, <2>6, <2>7 DEF UpdatesTypeOK, Kept, RequestRow
  <2>9. EventsAgree'
    <3>1. DOMAIN events = 1..Len(events)
      BY <2>5
    <3>2. ~resorted => \A i \in DOMAIN events :
            (\A j \in (i + 1)..Len(events) : events[j].id # events[i].id)
            => IF events[i].kind = "removed" THEN view.id # events[i].id ELSE view.id = events[i].id /\ view.up = events[i].up
      BY <2>2, <2>5, <3>1 DEF LastSays, Says
    <3> QED BY <1>2, <2>6, <2>8, <3>2 DEF EventsAgree
  <2>10. NothingSaved'
    <3>1. view # NoRow.view
      BY DockerAssumption DEF View, Containers, NoRow
    <3> QED BY <2>6, <3>1 DEF NothingSaved
  <2>11. call \in [Clients -> [Attempts -> CallRow]]
    BY <1>1 DEF UpdatesTypeOK, CallRow, CallSteps
  <2>12. Timed'
    BY <1>1, <1>2, <1>4, <2>1, <2>5, <2>6, SavedStayTimed
  <2> QED BY <1>2, <1>4, <2>9, <2>10, <2>11, <2>12, RequestKeeps DEF Kept
<1> QED BY <1>5, <1>6 DEF SaveTargetDockerInventory

(* The last event about a container. *)
LEMMA LastAbout ==
  ASSUME NEW events \in Seq(Event), NEW k \in 1..Len(events)
  PROVE  \E m \in k..Len(events) :
           events[m].id = events[k].id /\ \A j \in (m + 1)..Len(events) : events[j].id # events[m].id
<1>1. PICK R : R = {p \in Nat \X Nat : p[1] < p[2]}
  OBVIOUS
<1>2. IsWellFoundedOn(R, Nat)
  BY <1>1, NatLessThanWellFounded DEF OpToRel
<1>3. PICK after : after = {n \in 0..(Len(events) - k) : events[Len(events) - n].id = events[k].id}
  OBVIOUS
<1>4. after \subseteq Nat /\ Len(events) - k \in after
  BY <1>3
<1>5. PICK n \in after : \A l \in after : ~(<<l, n>> \in R)
  BY <1>2, <1>4, WFMin
<1>6. PICK m \in k..Len(events) : m = Len(events) - n /\ events[m].id = events[k].id
  BY <1>3, <1>5
<1>7. ASSUME NEW j \in (m + 1)..Len(events), events[j].id = events[m].id PROVE FALSE
  <2>1. Len(events) - j \in 0..(Len(events) - k) /\ Len(events) - (Len(events) - j) = j /\ Len(events) - j < n
    BY <1>3, <1>6
  <2>2. Len(events) - j \in after
    BY <1>3, <1>6, <1>7, <2>1
  <2>3. <<Len(events) - j, n>> \in R
    BY <1>1, <1>4, <1>5, <2>1, <2>2
  <2> QED BY <1>5, <2>2, <2>3
<1> QED BY <1>6, <1>7

(* A history in order of time says the same after the retention. *)
LEMMA SortedSaysTheSame ==
  ASSUME NEW old \in Seq(Event), NEW new \in Seq(Event), NEW view, NEW cutoff \in Nat,
         LastSays(old, view), Tied(old), Chronological(old), Chronological(new),
         \A i \in 1..Len(new) : \E k \in Retained(old, cutoff) : new[i] = old[k],
         \A k \in Retained(old, cutoff) : \E i \in 1..Len(new) : new[i] = old[k]
  PROVE  LastSays(new, view)
<1>1. DOMAIN old = 1..Len(old) /\ DOMAIN new = 1..Len(new)
  OBVIOUS
<1>2. \A k \in 1..Len(old) : old[k] \in Event /\ old[k].at \in Nat
  <2>1. \A k \in 1..Len(old) : old[k] \in Event
    OBVIOUS
  <2> QED BY <2>1 DEF Event
<1> SUFFICES ASSUME NEW i \in 1..Len(new), \A j \in (i + 1)..Len(new) : new[j].id # new[i].id
             PROVE  Says(new[i], view)
  BY DEF LastSays
<1>3. PICK k \in 1..Len(old) : new[i] = old[k] /\ old[k].at >= cutoff
  BY <1>1 DEF Retained
<1>4. PICK m \in k..Len(old) : old[m].id = old[k].id /\ \A j \in (m + 1)..Len(old) : old[j].id # old[m].id
  BY LastAbout
<1>5. m \in 1..Len(old) /\ old[k].at <= old[m].at
  <2>1. m \in 1..Len(old) /\ (m = k \/ k < m)
    BY <1>4
  <2>2. CASE m = k
    <3>1. old[k].at \in Nat
      BY <1>2
    <3> QED BY <2>1, <2>2, <3>1
  <2>3. CASE k < m
    BY <1>1, <2>1, <2>3 DEF Chronological
  <2> QED BY <2>1, <2>2, <2>3
<1>6. Says(old[m], view)
  BY <1>4, <1>5 DEF LastSays
<1>7. m \in Retained(old, cutoff)
  <2>1. old[m].at >= cutoff
    BY <1>2, <1>3, <1>5
  <2> QED BY <1>1, <1>5, <2>1 DEF Retained
<1>8. PICK j \in 1..Len(new) : new[j] = old[m]
  BY <1>7
<1>9. new[j] = old[m] /\ new[j].id = new[i].id
  BY <1>3, <1>4, <1>8
<1>10. j <= i
  BY <1>9
<1>11. old[m].at = old[k].at
  <2>1. CASE j = i
    BY <1>3, <1>8, <2>1
  <2>2. CASE j # i
    <3>1. j < i
      BY <1>10, <2>2
    <3>2. new[j].at <= new[i].at
      BY <1>1, <3>1 DEF Chronological
    <3>3. old[m].at \in Nat /\ old[k].at \in Nat
      BY <1>2, <1>5
    <3>4. old[m].at <= old[k].at /\ old[k].at <= old[m].at
      BY <1>3, <1>5, <1>9, <3>2
    <3>5. \A x, y \in Nat : x <= y /\ y <= x => x = y
      OBVIOUS
    <3> QED BY <3>3, <3>4, <3>5, Zenon
  <2> QED BY <2>1, <2>2
<1>12. /\ old[m].kind = "removed" <=> old[k].kind = "removed"
       /\ old[m].kind # "removed" => old[m].up = old[k].up
  BY <1>4, <1>5, <1>11 DEF Tied
<1> QED BY <1>3, <1>4, <1>6, <1>12 DEF Says

(* The retention. *)
LEMMA PruneKeeps == ASSUME DockerInv, NEW cutoff \in Nat, PruneExpiredEvents(cutoff) PROVE DockerInv'
<1>1. UpdatesTypeOK /\ NothingSaved /\ Timed
  BY DEF DockerInv, EventsAgree
<1>2. PICK old \in Seq(Event) : old = inventory.events /\ Len(old) <= MaxEvents
  BY <1>1 DEF UpdatesTypeOK
<1>3. DOMAIN old = 1..Len(old) /\ Len(old) \in Nat
  BY <1>2
<1>4. PICK kept : kept = Retained(inventory.events, cutoff)
  OBVIOUS
<1>5. kept \subseteq 1..Len(old) /\ kept # 1..Len(old)
  BY <1>2, <1>3, <1>4 DEF PruneExpiredEvents, Retained
<1>6. IsFiniteSet(1..Len(old)) /\ Cardinality(1..Len(old)) = Len(old)
  <2>4. Len(old) \in Int /\ Len(old) >= 0
    BY <1>3
  <2>1. PICK length \in Int : length = Len(old) /\ length >= 0
    BY <2>4, Zenon
  <2>2. 1 \in Int
    OBVIOUS
  <2>3. IsFiniteSet(1..length) /\ Cardinality(1..length) = IF 1 > length THEN 0 ELSE length - 1 + 1
    BY <2>2, FS_Interval, Zenon
  <2> QED BY <2>1, <2>3
<1>7. IsFiniteSet(kept) /\ Cardinality(kept) <= Len(old)
  BY <1>5, <1>6, FS_Subset
<1>8. PICK n \in Nat : n = Cardinality(Retained(inventory.events, cutoff)) /\ n <= Len(old)
  BY <1>4, <1>7, FS_CardinalityType
<1>9. PICK order \in Bijection(1..Cardinality(Retained(inventory.events, cutoff)), Retained(inventory.events, cutoff)) :
        /\ Chronological([i \in 1..Cardinality(Retained(inventory.events, cutoff)) |-> inventory.events[order[i]]])
        /\ inventory' = [inventory EXCEPT !.events =
                           [i \in 1..Cardinality(Retained(inventory.events, cutoff)) |-> inventory.events[order[i]]]]
  BY Zenon DEF PruneExpiredEvents
<1>10. order \in Bijection(1..n, kept)
  BY <1>4, <1>8, <1>9
<1>11. /\ \A i \in 1..n : order[i] \in kept
       /\ \A k \in kept : \E i \in 1..n : order[i] = k
  BY <1>10 DEF Bijection, Injection, Surjection
<1>12. PICK new : new = [i \in 1..Cardinality(Retained(inventory.events, cutoff)) |-> inventory.events[order[i]]]
  OBVIOUS
<1>13. new \in Seq(Event) /\ Len(new) = n /\ \A i \in 1..n : new[i] = old[order[i]]
  <2>1. \A k \in kept : old[k] \in Event
    BY <1>5
  <2>2. new = [i \in 1..n |-> old[order[i]]]
    BY <1>2, <1>8, <1>12
  <2>3. new \in [1..n -> Event]
    BY <1>11, <2>1, <2>2
  <2> QED BY <1>8, <2>2, <2>3
<1>14. Chronological(new) /\ inventory' = [inventory EXCEPT !.events = new]
  BY <1>9, <1>12
<1>15. /\ inventory'.view = inventory.view /\ inventory'.events = new
       /\ inventory' \in [view : View \cup {NoRow.view}, events : Seq(Event)]
  BY <1>1, <1>13, <1>14 DEF UpdatesTypeOK
<1>16. /\ UNCHANGED <<registry, tag, service, foreign, request, call, clock, audit, requests>>
       /\ resorted' = (resorted \/ ~Chronological(old))
  BY <1>2 DEF PruneExpiredEvents, host
<1>17. UpdatesTypeOK'
  <2>1. Len(new) <= MaxEvents
    BY <1>2, <1>3, <1>8, <1>13, DockerAssumption
  <2>2. resorted' \in BOOLEAN
    BY <1>16
  <2> QED BY <1>1, <1>15, <1>16, <2>1, <2>2 DEF UpdatesTypeOK
<1>18. \A i \in 1..Len(new) : \E k \in 1..Len(old) : new[i] = old[k]
  BY <1>5, <1>11, <1>13
<1>19. Timed'
  <2>1. RequestsTimed'
    BY <1>1, <1>16 DEF Timed, RequestsTimed
  <2>2. EventsTimed'
    BY <1>1, <1>2, <1>15, <1>16, <1>18 DEF Timed, EventsTimed
  <2>3. Tied(new)
    <3>1. Tied(old)
      BY <1>1, <1>2 DEF Timed
    <3> SUFFICES ASSUME NEW i \in 1..Len(new), NEW j \in 1..Len(new), new[i].at = new[j].at, new[i].id = new[j].id
                 PROVE  /\ new[i].kind = "removed" <=> new[j].kind = "removed"
                        /\ new[i].kind # "removed" => new[i].up = new[j].up
      BY DEF Tied
    <3>2. PICK k, l \in 1..Len(old) : new[i] = old[k] /\ new[j] = old[l]
      BY <1>18
    <3> QED BY <3>1, <3>2 DEF Tied
  <2> QED BY <1>15, <2>1, <2>2, <2>3 DEF Timed
<1>20. NothingSaved'
  <2>1. inventory.view = NoRow.view => Len(old) = 0
    BY <1>1, <1>2 DEF NothingSaved
  <2>2. Len(old) = 0 => kept = 1..Len(old)
    BY <1>3, <1>5
  <2> QED BY <1>5, <1>15, <2>1, <2>2 DEF NothingSaved
<1>21. EventsAgree'
  <2>1. CASE resorted'
    BY <1>17, <2>1 DEF EventsAgree
  <2>2. CASE ~resorted'
    <3>1. ~resorted /\ Chronological(old)
      BY <1>16, <2>2
    <3>2. LastSays(old, inventory.view)
      BY <1>1, <1>2, <3>1, AgreeIsLastSays DEF DockerInv
    <3>3. PICK view : view = inventory.view
      OBVIOUS
    <3>4. kept = Retained(old, cutoff)
      BY <1>2, <1>4
    <3>8. Tied(old)
      BY <1>1, <1>2 DEF Timed
    <3>9. /\ \A i \in 1..Len(new) : \E k \in Retained(old, cutoff) : new[i] = old[k]
          /\ \A k \in Retained(old, cutoff) : \E i \in 1..Len(new) : new[i] = old[k]
      BY <1>11, <1>13, <3>4
    <3>10. LastSays(old, view) /\ new \in Seq(Event) /\ Chronological(new)
      BY <1>13, <1>14, <3>2, <3>3
    <3>5. LastSays(new, view)
      BY <3>1, <3>8, <3>9, <3>10, SortedSaysTheSame
    <3>6. DOMAIN new = 1..Len(new)
      BY <1>13
    <3>7. \A i \in DOMAIN new :
            (\A j \in (i + 1)..Len(new) : new[j].id # new[i].id)
            => IF new[i].kind = "removed" THEN view.id # new[i].id ELSE view.id = new[i].id /\ view.up = new[i].up
      BY <3>5, <3>6 DEF LastSays, Says
    <3> QED BY <1>15, <1>17, <3>3, <3>7 DEF EventsAgree
  <2> QED BY <2>1, <2>2
<1>22. SuccessReplaced' /\ AsksForKnown' /\ AttemptsReplaced' /\ RequestsReplaced'
  BY <1>16 DEF DockerInv, SuccessReplaced, AsksForKnown, AttemptsReplaced, RequestsReplaced, Replaced
<1> QED BY <1>19, <1>20, <1>21, <1>22 DEF DockerInv

(* A new request: nothing is answered or called yet. *)
LEMMA AskKeeps ==
  ASSUME DockerInv, NEW c \in Clients, NEW kind \in Kinds, NEW container \in 1..service.id, NEW expected \in 1..registry,
         Ask(c, kind, container, expected)
  PROVE  DockerInv'
<1> USE DEF DockerInv
<1>1. UpdatesTypeOK
  BY DEF EventsAgree
<1>2. UNCHANGED <<registry, tag, service, foreign, inventory, audit, clock, resorted>> /\ requests' \in 0..MaxRequests
  BY <1>1, DockerAssumption DEF Ask, host, saved, UpdatesTypeOK
<1>3. container \in Containers /\ expected \in Images /\ 1 \in Attempts /\ container <= service.id
  <2>1. service.id \in Containers /\ registry \in Images
    BY <1>1 DEF UpdatesTypeOK, View
  <2>2. MaxContainers \in Nat /\ MaxImages \in Nat /\ MaxRetries \in Nat
    BY DockerAssumption
  <2> QED BY <2>1, <2>2 DEF Containers, Images, Attempts
<1>4. PICK next : next = [Idle EXCEPT !.kind = kind, !.pc = "discover", !.container = container, !.expected = expected]
  OBVIOUS
<1>5. /\ next \in RequestRow /\ next.pc = "discover" /\ next.answer = "none" /\ next.container = container
      /\ next.kind = kind
  BY <1>3, <1>4 DEF Idle, RequestRow
<1>6. request' \in [Clients -> RequestRow] /\ request'[c] = next /\ \A d \in Clients \ {c} : request'[d] = request[d]
  BY <1>1, <1>4, <1>5 DEF Ask, UpdatesTypeOK, RequestRow
<1>7. NoCall \in CallRow /\ NoCall.pc = "none"
  <2>1. 1 \in Images
    BY DockerAssumption DEF Images
  <2> QED BY <2>1 DEF NoCall, CallRow, CallSteps
<1>8. /\ call' \in [Clients -> [Attempts -> CallRow]]
      /\ \A a \in Attempts : call'[c][a].pc = "none"
      /\ \A d \in Clients \ {c} : call'[d] = call[d]
  <2>1. call \in [Clients -> [Attempts -> CallRow]]
    BY <1>1 DEF UpdatesTypeOK, CallRow, CallSteps
  <2>2. PICK f : f = [a \in Attempts |-> NoCall]
    OBVIOUS
  <2>3. f \in [Attempts -> CallRow] /\ \A a \in Attempts : f[a].pc = "none"
    BY <1>7, <2>2
  <2>4. call' = [call EXCEPT ![c] = f]
    BY <2>2 DEF Ask
  <2> QED BY <2>1, <2>3, <2>4
<1>9. UpdatesTypeOK'
  BY <1>1, <1>2, <1>6, <1>8 DEF UpdatesTypeOK, RequestRow, CallRow, CallSteps
<1>10. EventsAgree' /\ NothingSaved'
  BY <1>2, <1>9 DEF EventsAgree, NothingSaved
<1>11. SuccessReplaced'
  BY <1>2, <1>5, <1>6 DEF SuccessReplaced
<1>12. AsksForKnown'
  BY <1>2, <1>3, <1>5, <1>6 DEF AsksForKnown
<1>13. \A d \in Clients \ {c} : Replaced(d)' <=> Replaced(d)
  BY <1>2, <1>6 DEF Replaced
<1>14. RequestsReplaced'
  BY <1>5, <1>6, <1>13 DEF RequestsReplaced
<1>15. AttemptsReplaced'
  <2> SUFFICES ASSUME NEW d \in Clients, NEW a \in Attempts
               PROVE  /\ call'[d][a].pc = "status" => Replaced(d)'
                      /\ call'[d][a].pc = "ok" /\ request'[d].kind = "apply" => Replaced(d)'
                      /\ call'[d][a].pc = "act" => request'[d].kind # "apply"
    BY DEF AttemptsReplaced
  <2>1. CASE d = c
    BY <1>8, <2>1
  <2>2. CASE d # c
    BY <1>6, <1>8, <1>13, <2>2 DEF AttemptsReplaced
  <2> QED BY <2>1, <2>2
<1>16. Timed'
  BY <1>2, <1>5, <1>6 DEF Timed, RequestsTimed, EventsTimed
<1> QED BY <1>10, <1>11, <1>12, <1>14, <1>15, <1>16

LEMMA DockerNextKeeps == DockerInv /\ [UpdatesNext]_updateVars => DockerInv'
<1> SUFFICES ASSUME DockerInv, [UpdatesNext]_updateVars PROVE DockerInv'
  OBVIOUS
<1>1. ASSUME registry' \in Images, foreign' \in BOOLEAN, UNCHANGED <<tag, service, request, call, clock, saved, requests>>
      PROVE  DockerInv'
  <2>1. UNCHANGED <<tag, service, request, call, clock, inventory, audit, resorted, requests>>
    BY <1>1 DEF saved
  <2>2. UpdatesTypeOK'
    BY <1>1, <2>1 DEF DockerInv, EventsAgree, UpdatesTypeOK
  <2>3. EventsAgree' /\ NothingSaved'
    BY <2>1, <2>2 DEF DockerInv, EventsAgree, NothingSaved
  <2>4. SuccessReplaced' /\ AsksForKnown' /\ AttemptsReplaced' /\ RequestsReplaced'
    BY <2>1 DEF DockerInv, SuccessReplaced, AsksForKnown, AttemptsReplaced, RequestsReplaced, Replaced
  <2>5. Timed'
    BY <2>1 DEF DockerInv, Timed, RequestsTimed, EventsTimed
  <2> QED BY <2>3, <2>4, <2>5 DEF DockerInv
<1>2. registry \in Images /\ foreign \in BOOLEAN
  BY DEF DockerInv, EventsAgree, UpdatesTypeOK
<1>3. CASE RegistryMoves
  <2>1. registry' \in Images
    BY <1>2, <1>3, DockerAssumption DEF RegistryMoves, Images
  <2> QED BY <1>1, <1>2, <1>3, <2>1 DEF RegistryMoves
<1>4. CASE ComposeChanges
  BY <1>1, <1>2, <1>4 DEF ComposeChanges
<1>5. CASE UNCHANGED updateVars
  BY <1>1, <1>2, <1>5 DEF updateVars, host
<1>6. ASSUME NEW c \in Clients, ControllerStep(c) PROVE DockerInv'
  BY <1>6, HandlerSteps, SaveKeeps DEF ControllerStep
<1>7. ASSUME NEW cutoff \in 1..clock + 1, PruneExpiredEvents(cutoff) PROVE DockerInv'
  <2>1. cutoff \in Nat
    BY DEF DockerInv, EventsAgree, UpdatesTypeOK
  <2> QED BY <1>7, <2>1, PruneKeeps
<1> QED BY <1>3, <1>4, <1>5, <1>6, <1>7, AgentStepKeeps, AskKeeps DEF UpdatesNext

(* For any number of clients, retries, images and containers, an image      *)
(* update that was audited or answered with success has replaced the        *)
(* container the operator chose, whatever abandoned attempts of the agent's *)
(* handler did meanwhile (apply_target_docker_image_update).                *)
THEOREM SuccessAlwaysReplaced == UpdatesSpec => []SuccessReplaced
<1>1. DockerInv => SuccessReplaced
  BY DEF DockerInv
<1> QED BY <1>1, InitDocker, DockerNextKeeps, PTL DEF UpdatesSpec

(* For any cap on the events, any order in which discoveries are saved and  *)
(* any cutoff of the daily retention, the last event kept about a container *)
(* says what the inventory shows of it, until the retention sorts a history *)
(* whose discoveries were not saved in the order they were made             *)
(* (update_docker_inventory_events, prune_expired_events).                  *)
THEOREM EventsAlwaysAgree == UpdatesSpec => []EventsAgree
<1>1. DockerInv => EventsAgree
  BY DEF DockerInv
<1> QED BY <1>1, InitDocker, DockerNextKeeps, PTL DEF UpdatesSpec
(***************************************************************************)
(* Discovery, for any number of requests, workloads, runs and mistakes.    *)
(* Whoever is at work holds docker_discovery_lock (LockHeldAtWork), so its *)
(* run is the latest one and still running (RunIsLatest); before it        *)
(* finishes nothing is present that it has not seen (MarkedMissing), and   *)
(* what the run before it showed stands until it starts (LastRunShown).    *)
(***************************************************************************)
WorkloadRow == [presence : Presences, managed : BOOLEAN, change : {"none", "new", "changed", "unchanged", "missing"}]
RunRow == [status : {"running", "succeeded", "failed"}, seen : SUBSET Workloads]
SeekerRow ==
  [pc : {"idle", "start", "fetch", "persist", "finish", "fail"}, run : 0..MaxRuns,
   seen : SUBSET Workloads, left : SUBSET Workloads]
LockHeldAtWork == \A s \in Seekers : seeker[s].pc # "idle" <=> lockedBy = s
RunIsLatest ==
  \A s \in Seekers : seeker[s].pc \in {"fetch", "persist", "finish", "fail"} =>
    seeker[s].run = Latest /\ Latest > 0 /\ runs[Latest].status = "running"
MarkedMissing ==
  \A s \in Seekers : seeker[s].pc = "finish" =>
    \A w \in Workloads : row[w].presence = "present" => w \in seeker[s].seen
LastRunShown ==
  Latest > 0 /\ runs[Latest].status = "succeeded"
    => \A w \in Workloads : row[w].presence = "present" => w \in runs[Latest].seen
DiscoveryInv ==
  DiscoveryTypeOK /\ Latest \in Nat /\ LockHeldAtWork /\ RunIsLatest /\ MarkedMissing /\ LastRunShown

(* Nobody has looked yet. *)
LEMMA InitDiscovery == DiscoveryInit => DiscoveryInv
<1> SUFFICES ASSUME DiscoveryInit PROVE DiscoveryInv
  OBVIOUS
<1>1. runs = [r \in {} |-> "none"] /\ DOMAIN runs = {}
  BY DEF DiscoveryInit
<1>2. Latest = 0
  BY <1>1, FS_EmptySet DEF Latest, RunIds
<1>3. 1..Latest = {}
  BY <1>2
<1>4. runs \in [1..Latest -> RunRow]
  BY <1>1, <1>3
<1>5. Resting \in SeekerRow
  BY DiscoveryAssumption DEF Resting, SeekerRow
<1>6. seeker \in [Seekers -> SeekerRow] /\ \A s \in Seekers : seeker[s].pc = "idle"
  BY <1>5 DEF DiscoveryInit, Resting
<1>7. NoWorkload \in WorkloadRow /\ NoWorkload.presence = "none" /\ NoWorkload.change = "none"
  BY DEF NoWorkload, WorkloadRow, Presences
<1>8. row \in [Workloads -> WorkloadRow] /\ \A w \in Workloads : row[w].presence = "none" /\ row[w].change = "none"
  BY <1>7 DEF DiscoveryInit
<1>9. mistakes \in 0..MaxMistakes
  BY DiscoveryAssumption DEF DiscoveryInit
<1>10. onHost \subseteq Workloads /\ lockedBy \in Seekers \cup {NoSeeker}
  BY DEF DiscoveryInit
<1>11. DiscoveryTypeOK
  BY <1>4, <1>6, <1>8, <1>9, <1>10 DEF DiscoveryTypeOK, RunRow, SeekerRow, WorkloadRow
<1>12. LockHeldAtWork
  BY <1>6, DiscoveryAssumption DEF LockHeldAtWork, DiscoveryInit
<1>13. RunIsLatest /\ MarkedMissing
  BY <1>6 DEF RunIsLatest, MarkedMissing
<1>14. LastRunShown
  BY <1>2 DEF LastRunShown
<1> QED BY <1>2, <1>11, <1>12, <1>13, <1>14 DEF DiscoveryInv

(* The types by their names. *)
LEMMA DiscoveryTypes ==
  DiscoveryTypeOK <=>
    /\ onHost \subseteq Workloads /\ row \in [Workloads -> WorkloadRow]
    /\ \A w \in Workloads : (row[w].presence = "missing") = (row[w].change = "missing")
    /\ runs \in [1..Latest -> RunRow] /\ lockedBy \in Seekers \cup {NoSeeker}
    /\ seeker \in [Seekers -> SeekerRow] /\ mistakes \in 0..MaxMistakes
BY DEF DiscoveryTypeOK, WorkloadRow, RunRow, SeekerRow

LEMMA LatestStays == ASSUME runs' = runs PROVE Latest' = Latest
BY DEF Latest, RunIds

(* Rows that show no new presence, while nobody moves. *)
LEMMA RowsKeep ==
  ASSUME DiscoveryInv, UNCHANGED <<runs, lockedBy, seeker, mistakes>>, onHost' \subseteq Workloads,
         row' \in [Workloads -> WorkloadRow],
         \A w \in Workloads : (row'[w].presence = "missing") = (row'[w].change = "missing"),
         \A w \in Workloads : row'[w].presence = "present" => row[w].presence = "present"
  PROVE  DiscoveryInv'
<1>1. Latest' = Latest
  BY LatestStays
<1>2. DiscoveryTypeOK'
  BY <1>1, DiscoveryTypes DEF DiscoveryInv, DiscoveryTypeOK, WorkloadRow, RunRow, SeekerRow
<1>3. LockHeldAtWork' /\ RunIsLatest'
  BY <1>1 DEF DiscoveryInv, LockHeldAtWork, RunIsLatest
<1>4. MarkedMissing'
  BY DEF DiscoveryInv, MarkedMissing
<1>5. LastRunShown'
  BY <1>1 DEF DiscoveryInv, LastRunShown
<1> QED BY <1>1, <1>2, <1>3, <1>4, <1>5 DEF DiscoveryInv

(* Containers come and go, the operator adopts and removes. *)
LEMMA OutsideKeeps ==
  ASSUME DiscoveryInv, HostChanges \/ \E w \in Workloads : AdoptDockerContainer(w) \/ RemoveDockerContainer(w)
  PROVE  DiscoveryInv'
<1>1. onHost \subseteq Workloads /\ row \in [Workloads -> WorkloadRow] /\ \A w \in Workloads : (row[w].presence = "missing") = (row[w].change = "missing")
  BY DiscoveryTypes DEF DiscoveryInv
<1>2. CASE HostChanges
  <2>1. onHost' \subseteq Workloads /\ UNCHANGED <<row, runs, lockedBy, seeker, mistakes>>
    BY <1>2 DEF HostChanges
  <2> QED BY <1>1, <2>1, RowsKeep
<1>3. ASSUME NEW w \in Workloads, AdoptDockerContainer(w) PROVE DiscoveryInv'
  <2>1. PICK f : f = [row[w] EXCEPT !.managed = TRUE]
    OBVIOUS
  <2>2. f \in WorkloadRow /\ f.presence = row[w].presence /\ f.change = row[w].change
    BY <1>1, <2>1 DEF WorkloadRow
  <2>3. row' = [row EXCEPT ![w] = f] /\ UNCHANGED <<onHost, runs, lockedBy, seeker, mistakes>>
    BY <1>3, <2>1 DEF AdoptDockerContainer
  <2>4. row' \in [Workloads -> WorkloadRow] /\ \A x \in Workloads : row'[x].presence = row[x].presence /\ row'[x].change = row[x].change
    BY <1>1, <2>2, <2>3
  <2> QED BY <1>1, <2>3, <2>4, RowsKeep
<1>4. ASSUME NEW w \in Workloads, RemoveDockerContainer(w) PROVE DiscoveryInv'
  <2>1. NoWorkload \in WorkloadRow /\ NoWorkload.presence = "none" /\ NoWorkload.change = "none"
    BY DEF NoWorkload, WorkloadRow, Presences
  <2>2. row' = [row EXCEPT ![w] = NoWorkload] /\ UNCHANGED <<onHost, runs, lockedBy, seeker, mistakes>>
    BY <1>4 DEF RemoveDockerContainer
  <2>3. row' \in [Workloads -> WorkloadRow] /\ \A x \in Workloads : row'[x] = row[x] \/ row'[x] = NoWorkload
    BY <1>1, <2>1, <2>2
  <2>4. /\ \A x \in Workloads : (row'[x].presence = "missing") = (row'[x].change = "missing")
        /\ \A x \in Workloads : row'[x].presence = "present" => row[x].presence = "present"
    BY <1>1, <2>1, <2>3
  <2> QED BY <1>1, <2>2, <2>3, <2>4, RowsKeep
<1> QED BY <1>2, <1>3, <1>4

(* One discovery is the only one at work. *)
LEMMA OneAtWork ==
  ASSUME DiscoveryInv, NEW s \in Seekers, seeker[s].pc # "idle"
  PROVE  lockedBy = s /\ \A x \in Seekers \ {s} : seeker[x].pc = "idle"
BY DEF DiscoveryInv, LockHeldAtWork

(* A discovery moves on, the table of the runs stays. *)
LEMMA SeekerMoves ==
  ASSUME DiscoveryInv, NEW s \in Seekers, NEW q \in SeekerRow, seeker[s].pc # "idle", q.pc # "idle",
         seeker' = [seeker EXCEPT ![s] = q], UNCHANGED <<onHost, runs, lockedBy>>, mistakes' \in 0..MaxMistakes,
         row' \in [Workloads -> WorkloadRow],
         \A w \in Workloads : (row'[w].presence = "missing") = (row'[w].change = "missing"),
         q.pc \in {"fetch", "persist", "finish", "fail"},
         seeker[s].pc \in {"fetch", "persist", "finish", "fail"}, q.run = seeker[s].run,
         q.pc = "finish" => \A w \in Workloads : row'[w].presence = "present" => w \in q.seen
  PROVE  DiscoveryInv'
<1>1. Latest' = Latest
  BY LatestStays
<1>2. seeker' \in [Seekers -> SeekerRow] /\ seeker'[s] = q /\ \A x \in Seekers \ {s} : seeker'[x] = seeker[x]
  BY DiscoveryTypes DEF DiscoveryInv
<1>3. lockedBy = s /\ \A x \in Seekers \ {s} : seeker[x].pc = "idle"
  BY OneAtWork
<1>4. DiscoveryTypeOK'
  BY <1>1, <1>2, DiscoveryTypes DEF DiscoveryInv, DiscoveryTypeOK, WorkloadRow, RunRow, SeekerRow
<1>5. LockHeldAtWork'
  BY <1>2, <1>3 DEF LockHeldAtWork
<1>6. seeker[s].run = Latest /\ Latest > 0 /\ runs[Latest].status = "running"
  BY DEF DiscoveryInv, RunIsLatest
<1>7. RunIsLatest'
  BY <1>1, <1>2, <1>3, <1>6 DEF RunIsLatest
<1>8. MarkedMissing'
  BY <1>2, <1>3 DEF MarkedMissing
<1>9. LastRunShown'
  BY <1>1, <1>6 DEF LastRunShown
<1> QED BY <1>1, <1>4, <1>5, <1>7, <1>8, <1>9 DEF DiscoveryInv

(* A discovery gets the lock, and its run's row. *)
LEMMA StartKeeps ==
  ASSUME DiscoveryInv, NEW s \in Seekers, RunDockerDiscovery(s) \/ StartDockerDiscovery(s)
  PROVE  DiscoveryInv'
<1>0. seeker \in [Seekers -> SeekerRow] /\ runs \in [1..Latest -> RunRow] /\ Latest \in Nat
  BY DiscoveryTypes DEF DiscoveryInv
<1>1. CASE RunDockerDiscovery(s)
  <2>1. PICK q : q = [seeker[s] EXCEPT !.pc = "start"]
    OBVIOUS
  <2>2. q \in SeekerRow /\ q.pc = "start"
    BY <1>0, <2>1 DEF SeekerRow
  <2>3. /\ seeker' = [seeker EXCEPT ![s] = q] /\ lockedBy = NoSeeker /\ lockedBy' = s
        /\ UNCHANGED <<onHost, row, runs, mistakes>>
    BY <1>1, <2>1 DEF RunDockerDiscovery, Step
  <2>4. seeker' \in [Seekers -> SeekerRow] /\ seeker'[s] = q /\ \A x \in Seekers \ {s} : seeker'[x] = seeker[x]
    BY <1>0, <2>2, <2>3
  <2>5. \A x \in Seekers : seeker[x].pc = "idle"
    BY <2>3, DiscoveryAssumption DEF DiscoveryInv, LockHeldAtWork
  <2>6. Latest' = Latest
    BY <2>3, LatestStays
  <2>7. DiscoveryTypeOK'
    BY <2>3, <2>4, <2>6, DiscoveryTypes DEF DiscoveryInv, DiscoveryTypeOK, WorkloadRow, RunRow, SeekerRow
  <2>8. LockHeldAtWork'
    BY <2>2, <2>3, <2>4, <2>5 DEF LockHeldAtWork
  <2>9. RunIsLatest' /\ MarkedMissing'
    BY <2>2, <2>4, <2>5 DEF RunIsLatest, MarkedMissing
  <2>10. LastRunShown'
    BY <2>3, <2>6 DEF DiscoveryInv, LastRunShown
  <2> QED BY <1>0, <2>6, <2>7, <2>8, <2>9, <2>10 DEF DiscoveryInv
<1>2. CASE StartDockerDiscovery(s)
  <2>1. PICK n \in Nat : n = Latest
    BY <1>0
  <2>2. PICK f : f = [status |-> "running", seen |-> {}]
    OBVIOUS
  <2>3. PICK q : q = [seeker[s] EXCEPT !.pc = "fetch", !.run = n + 1]
    OBVIOUS
  <2>4. /\ seeker[s].pc = "start" /\ n < MaxRuns /\ UNCHANGED <<onHost, row, lockedBy, mistakes>>
        /\ runs' = [r \in RunIds \cup {n + 1} |-> IF r \in RunIds THEN runs[r] ELSE f]
        /\ seeker' = [seeker EXCEPT ![s] = q]
    BY <1>2, <2>1, <2>2, <2>3 DEF StartDockerDiscovery
  <2>5. q \in SeekerRow /\ q.pc = "fetch" /\ q.run = n + 1
    <3>1. n + 1 \in 0..MaxRuns
      BY <2>4, DiscoveryAssumption
    <3> QED BY <1>0, <2>3, <3>1 DEF SeekerRow
  <2>6. seeker' \in [Seekers -> SeekerRow] /\ seeker'[s] = q /\ \A x \in Seekers \ {s} : seeker'[x] = seeker[x]
    BY <1>0, <2>4, <2>5
  <2>7. RunIds = 1..n /\ f \in RunRow /\ f.status = "running"
    BY <1>0, <2>1, <2>2 DEF RunIds, RunRow
  <2>8. DOMAIN runs' = 1..(n + 1)
    BY <2>4, <2>7
  <2>9. Latest' = n + 1
    <3>1. Cardinality(1..(n + 1)) = n + 1
      BY FS_Interval
    <3> QED BY <2>8, <3>1 DEF Latest, RunIds
  <2>10. runs'[n + 1] = f
    BY <2>4, <2>7
  <2>11. runs' \in [1..(n + 1) -> RunRow]
    BY <1>0, <2>1, <2>4, <2>7
  <2>12. lockedBy = s /\ \A x \in Seekers \ {s} : seeker[x].pc = "idle"
    BY <2>4, OneAtWork
  <2>13. DiscoveryTypeOK'
    BY <2>4, <2>6, <2>9, <2>11, DiscoveryTypes DEF DiscoveryInv, DiscoveryTypeOK, WorkloadRow, RunRow, SeekerRow
  <2>14. LockHeldAtWork'
    BY <2>4, <2>5, <2>6, <2>12 DEF LockHeldAtWork
  <2>15. RunIsLatest'
    BY <2>5, <2>6, <2>7, <2>9, <2>10, <2>12 DEF RunIsLatest
  <2>16. MarkedMissing'
    BY <2>5, <2>6, <2>12 DEF MarkedMissing
  <2>17. LastRunShown'
    BY <2>7, <2>9, <2>10 DEF LastRunShown
  <2> QED BY <2>9, <2>13, <2>14, <2>15, <2>16, <2>17 DEF DiscoveryInv
<1> QED BY <1>1, <1>2

(* The inventory is fetched and its rows are written. *)
LEMMA InventoryKeeps ==
  ASSUME DiscoveryInv, NEW s \in Seekers,
         FetchDockerInventory(s) \/ PersistDockerInventory(s) \/ MarkMissingExcept(s) \/ FailInventoryPersistence(s)
  PROVE  DiscoveryInv'
<1>0. /\ onHost \subseteq Workloads /\ row \in [Workloads -> WorkloadRow] /\ seeker[s] \in SeekerRow
      /\ \A w \in Workloads : (row[w].presence = "missing") = (row[w].change = "missing")
      /\ mistakes \in 0..MaxMistakes
  BY DiscoveryTypes DEF DiscoveryInv
<1>1. CASE FetchDockerInventory(s)
  <2>1. PICK q : q = [seeker[s] EXCEPT !.pc = "persist", !.seen = onHost, !.left = onHost]
    OBVIOUS
  <2>2. q \in SeekerRow /\ q.pc = "persist" /\ q.run = seeker[s].run
    BY <1>0, <2>1 DEF SeekerRow
  <2>3. seeker[s].pc = "fetch" /\ seeker' = [seeker EXCEPT ![s] = q] /\ UNCHANGED <<onHost, row, runs, lockedBy, mistakes>>
    BY <1>1, <2>1 DEF FetchDockerInventory
  <2> QED BY <1>0, <2>2, <2>3, SeekerMoves
<1>2. CASE PersistDockerInventory(s)
  <2>1. PICK w \in seeker[s].left :
           row' = [row EXCEPT ![w] = UpsertDiscovered(w)] /\ seeker' = [seeker EXCEPT ![s].left = @ \ {w}]
    BY <1>2 DEF PersistDockerInventory
  <2>2. w \in Workloads
    BY <1>0, <2>1 DEF SeekerRow
  <2>3. PICK f : f = UpsertDiscovered(w)
    OBVIOUS
  <2>4. f \in WorkloadRow /\ f.presence = "present" /\ f.change # "missing"
    BY <1>0, <2>2, <2>3 DEF UpsertDiscovered, WorkloadRow, Presences
  <2>5. PICK q : q = [seeker[s] EXCEPT !.left = seeker[s].left \ {w}]
    OBVIOUS
  <2>6. q \in SeekerRow /\ q.pc = seeker[s].pc /\ q.run = seeker[s].run
    BY <1>0, <2>5 DEF SeekerRow
  <2>7. seeker' = [seeker EXCEPT ![s] = q] /\ row' = [row EXCEPT ![w] = f]
    BY <2>1, <2>3, <2>5
  <2>8. row' \in [Workloads -> WorkloadRow] /\ row'[w] = f /\ \A x \in Workloads \ {w} : row'[x] = row[x]
    BY <1>0, <2>2, <2>4, <2>7
  <2>9. \A x \in Workloads : (row'[x].presence = "missing") = (row'[x].change = "missing")
    BY <1>0, <2>4, <2>8
  <2>10. seeker[s].pc = "persist" /\ UNCHANGED <<onHost, runs, lockedBy, mistakes>>
    BY <1>2 DEF PersistDockerInventory
  <2> QED BY <1>0, <2>6, <2>7, <2>8, <2>9, <2>10, SeekerMoves
<1>3. CASE MarkMissingExcept(s)
  <2>1. PICK q : q = [seeker[s] EXCEPT !.pc = "finish"]
    OBVIOUS
  <2>2. q \in SeekerRow /\ q.pc = "finish" /\ q.run = seeker[s].run /\ q.seen = seeker[s].seen
    BY <1>0, <2>1 DEF SeekerRow
  <2>3. /\ seeker[s].pc = "persist" /\ seeker' = [seeker EXCEPT ![s] = q] /\ UNCHANGED <<onHost, runs, lockedBy, mistakes>>
        /\ row' = [w \in Workloads |->
               IF row[w].presence = "present" /\ w \notin seeker[s].seen
               THEN [row[w] EXCEPT !.presence = "missing", !.change = "missing"] ELSE row[w]]
    BY <1>3, <2>1 DEF MarkMissingExcept, Step
  <2>4. ASSUME NEW w \in Workloads
        PROVE  /\ row'[w] \in WorkloadRow /\ (row'[w].presence = "missing") = (row'[w].change = "missing")
               /\ row'[w].presence = "present" => w \in seeker[s].seen
    <3>1. CASE row[w].presence = "present" /\ w \notin seeker[s].seen
      <4>1. row'[w] = [row[w] EXCEPT !.presence = "missing", !.change = "missing"]
        BY <2>3, <3>1
      <4> QED BY <1>0, <4>1 DEF WorkloadRow, Presences
    <3>2. CASE ~(row[w].presence = "present" /\ w \notin seeker[s].seen)
      <4>1. row'[w] = row[w]
        BY <2>3, <3>2
      <4> QED BY <1>0, <3>2, <4>1
    <3> QED BY <3>1, <3>2
  <2>5. row' \in [Workloads -> WorkloadRow]
    BY <2>3, <2>4
  <2> QED BY <1>0, <2>2, <2>3, <2>4, <2>5, SeekerMoves
<1>4. CASE FailInventoryPersistence(s)
  <2>1. PICK q : q = [seeker[s] EXCEPT !.pc = "fail"]
    OBVIOUS
  <2>2. q \in SeekerRow /\ q.pc = "fail" /\ q.run = seeker[s].run
    BY <1>0, <2>1 DEF SeekerRow
  <2>3. /\ seeker[s].pc \in {"fetch", "persist", "finish"} /\ seeker' = [seeker EXCEPT ![s] = q]
        /\ UNCHANGED <<onHost, row, runs, lockedBy>> /\ mistakes < MaxMistakes /\ mistakes' = mistakes + 1
    BY <1>4, <2>1 DEF FailInventoryPersistence, Step, Mistake
  <2>4. mistakes' \in 0..MaxMistakes
    BY <1>0, <2>3, DiscoveryAssumption
  <2> QED BY <1>0, <2>2, <2>3, <2>4, SeekerMoves
<1> QED BY <1>1, <1>2, <1>3, <1>4

(* A discovery ends, with its result or without, and its guard with it. *)
LEMMA EndKeeps ==
  ASSUME DiscoveryInv, NEW s \in Seekers, FinishDockerDiscovery(s) \/ DiscoveryDropped(s)
  PROVE  DiscoveryInv'
<1>0. /\ seeker \in [Seekers -> SeekerRow] /\ runs \in [1..Latest -> RunRow] /\ Latest \in Nat
      /\ mistakes \in 0..MaxMistakes
  BY DiscoveryTypes DEF DiscoveryInv
<1>1. seeker[s].pc # "idle" /\ seeker' = [seeker EXCEPT ![s] = Resting] /\ Release(s) /\ UNCHANGED <<onHost, row>>
  BY DEF FinishDockerDiscovery, DiscoveryDropped
<1>2. lockedBy = s /\ \A x \in Seekers \ {s} : seeker[x].pc = "idle"
  BY <1>1, OneAtWork
<1>3. lockedBy' = NoSeeker
  BY <1>1, <1>2 DEF Release
<1>4. Resting \in SeekerRow /\ Resting.pc = "idle"
  BY DiscoveryAssumption DEF Resting, SeekerRow
<1>5. seeker' \in [Seekers -> SeekerRow] /\ \A x \in Seekers : seeker'[x].pc = "idle"
  BY <1>0, <1>1, <1>2, <1>4
<1>6. LockHeldAtWork' /\ RunIsLatest' /\ MarkedMissing'
  BY <1>3, <1>5, DiscoveryAssumption DEF LockHeldAtWork, RunIsLatest, MarkedMissing
<1>7. CASE FinishDockerDiscovery(s)
  <2>1. PICK n \in Nat : n = Latest
    BY <1>0
  <2>2. PICK f : f = [status |-> IF seeker[s].pc = "finish" THEN "succeeded" ELSE "failed", seen |-> seeker[s].seen]
    OBVIOUS
  <2>3. seeker[s].pc \in {"finish", "fail"} /\ runs' = [runs EXCEPT ![seeker[s].run] = f] /\ mistakes' = mistakes
    BY <1>7, <2>2 DEF FinishDockerDiscovery
  <2>4. seeker[s].run = n /\ n > 0
    BY <2>1, <2>3 DEF DiscoveryInv, RunIsLatest
  <2>5. f \in RunRow /\ f.seen = seeker[s].seen /\ (f.status = "succeeded" => seeker[s].pc = "finish")
    BY <1>0, <2>2 DEF RunRow, SeekerRow
  <2>6. runs' \in [1..n -> RunRow] /\ runs'[n] = f /\ DOMAIN runs' = DOMAIN runs
    BY <1>0, <2>1, <2>3, <2>4, <2>5
  <2>7. Latest' = n
    BY <2>1, <2>6 DEF Latest, RunIds
  <2>8. LastRunShown'
    <3>1. seeker[s].pc = "finish" => \A w \in Workloads : row[w].presence = "present" => w \in seeker[s].seen
      BY DEF DiscoveryInv, MarkedMissing
    <3> QED BY <1>1, <2>5, <2>6, <2>7, <3>1 DEF LastRunShown
  <2>9. DiscoveryTypeOK'
    BY <1>1, <1>3, <1>5, <2>3, <2>6, <2>7, DiscoveryTypes DEF DiscoveryInv, DiscoveryTypeOK, WorkloadRow, RunRow, SeekerRow
  <2> QED BY <1>6, <2>7, <2>8, <2>9 DEF DiscoveryInv
<1>8. CASE DiscoveryDropped(s)
  <2>1. runs' = runs /\ mistakes < MaxMistakes /\ mistakes' = mistakes + 1
    BY <1>8 DEF DiscoveryDropped, Mistake
  <2>2. mistakes' \in 0..MaxMistakes
    BY <1>0, <2>1, DiscoveryAssumption
  <2>3. Latest' = Latest
    BY <2>1, LatestStays
  <2>4. DiscoveryTypeOK'
    BY <1>1, <1>3, <1>5, <2>1, <2>2, <2>3, DiscoveryTypes DEF DiscoveryInv, DiscoveryTypeOK, WorkloadRow, RunRow, SeekerRow
  <2>5. LastRunShown'
    BY <1>1, <2>1, <2>3 DEF DiscoveryInv, LastRunShown
  <2> QED BY <1>0, <1>6, <2>3, <2>4, <2>5 DEF DiscoveryInv
<1> QED BY <1>7, <1>8

(* Every step keeps the invariant. *)
LEMMA DiscoveryNextKeeps == DiscoveryInv /\ [DiscoveryNext]_discoveryVars => DiscoveryInv'
<1>1. ASSUME DiscoveryInv, UNCHANGED discoveryVars PROVE DiscoveryInv'
  <2>1. UNCHANGED <<onHost, row, runs, lockedBy, seeker, mistakes>>
    BY <1>1 DEF discoveryVars
  <2>2. /\ onHost' \subseteq Workloads /\ row' \in [Workloads -> WorkloadRow]
        /\ \A w \in Workloads : (row'[w].presence = "missing") = (row'[w].change = "missing")
    BY <1>1, <2>1, DiscoveryTypes DEF DiscoveryInv
  <2> QED BY <1>1, <2>1, <2>2, RowsKeep
<1> QED BY <1>1, OutsideKeeps, StartKeeps, InventoryKeeps, EndKeeps DEF DiscoveryNext, DiscoveryStep

(* No step but a removal takes an adoption back. *)
LEMMA AdoptionKept ==
  DiscoveryInv /\ [DiscoveryNext]_discoveryVars
    => [\A w \in Workloads : row[w].managed => row'[w].managed \/ row'[w] = NoWorkload]_discoveryVars
<1> SUFFICES ASSUME DiscoveryInv, DiscoveryNext, NEW w \in Workloads, row[w].managed
    PROVE  row'[w].managed \/ row'[w] = NoWorkload
  BY DEF discoveryVars
<1>0. row \in [Workloads -> WorkloadRow] /\ \A s \in Seekers : seeker[s] \in SeekerRow
  BY DiscoveryTypes DEF DiscoveryInv
<1>1. CASE row' = row
  BY <1>1
<1>2. ASSUME NEW x \in Workloads, AdoptDockerContainer(x) PROVE row'[w].managed \/ row'[w] = NoWorkload
  <2>1. row' = [row EXCEPT ![x].managed = TRUE]
    BY <1>2 DEF AdoptDockerContainer
  <2> QED BY <1>0, <2>1 DEF WorkloadRow
<1>3. ASSUME NEW x \in Workloads, RemoveDockerContainer(x) PROVE row'[w].managed \/ row'[w] = NoWorkload
  <2>1. row' = [row EXCEPT ![x] = NoWorkload]
    BY <1>3 DEF RemoveDockerContainer
  <2> QED BY <1>0, <2>1
<1>4. ASSUME NEW s \in Seekers, PersistDockerInventory(s) PROVE row'[w].managed \/ row'[w] = NoWorkload
  <2>1. PICK x \in seeker[s].left : row' = [row EXCEPT ![x] = UpsertDiscovered(x)]
    BY <1>4 DEF PersistDockerInventory
  <2>2. CASE x = w
    BY <1>0, <2>1, <2>2 DEF UpsertDiscovered
  <2>3. CASE x # w
    BY <1>0, <2>1, <2>3
  <2> QED BY <2>2, <2>3
<1>5. ASSUME NEW s \in Seekers, MarkMissingExcept(s) PROVE row'[w].managed \/ row'[w] = NoWorkload
  <2>1. row'[w] = row[w] \/ row'[w] = [row[w] EXCEPT !.presence = "missing", !.change = "missing"]
    BY <1>5 DEF MarkMissingExcept
  <2> QED BY <1>0, <2>1 DEF WorkloadRow
<1>6. ASSUME NEW s \in Seekers,
        \/ RunDockerDiscovery(s) \/ StartDockerDiscovery(s) \/ FetchDockerInventory(s)
        \/ FinishDockerDiscovery(s) \/ FailInventoryPersistence(s) \/ DiscoveryDropped(s)
      PROVE row' = row
  BY <1>6 DEF RunDockerDiscovery, StartDockerDiscovery, FetchDockerInventory, FinishDockerDiscovery,
              FailInventoryPersistence, DiscoveryDropped
<1>7. HostChanges => row' = row
  BY DEF HostChanges
<1> QED BY <1>1, <1>2, <1>3, <1>4, <1>5, <1>6, <1>7 DEF DiscoveryNext, DiscoveryStep

(* DiscoveryFaithful for every number of requests, workloads, runs and      *)
(* failures: when the latest discovery run succeeded nothing is shown as    *)
(* present that it did not see, and no discovery takes back what an         *)
(* operator adopted.                                                        *)
THEOREM DiscoveryAlwaysFaithful == DiscoverySpec => DiscoveryFaithful
<1>1. DiscoverySpec => []DiscoveryInv
  BY InitDiscovery, DiscoveryNextKeeps, PTL DEF DiscoverySpec
<1>2. DiscoveryInv => DiscoveryTypeOK /\ PresentWasSeen
  BY DEF DiscoveryInv, LastRunShown, PresentWasSeen
<1> QED BY <1>1, <1>2, AdoptionKept, PTL DEF DiscoverySpec, DiscoveryFaithful, AdoptionSurvives
=============================================================================
