----------------------------- MODULE MCReports -----------------------------
(* Small instances of DockerUpdates, DockerDiscovery and Heartbeats: what   *)
(* agents report of their hosts.  They share no state; a behaviour is about *)
(* image updates with retries, the saved history, discovery, the time of    *)
(* telemetry samples (with one failed heartbeat or one of the poller), or   *)
(* the order of package inventories, and the rest rests.                    *)
EXTENDS DockerUpdates, DockerDiscovery, Heartbeats, TLC

VARIABLE part

NoRetry == \A c \in Clients : request'[c].attempt = 1
OneUpset ==
  /\ missed' + taken'.last.n <= 1
  /\ taken'.last # taken.last => due'.poller /\ ~taken'.last.valid

mcVars == <<part, updateVars, discoveryVars, heartbeatVars>>
MCInit ==
  /\ part \in {"updates", "history", "discovery", "telemetry", "inventories"}
  /\ UpdatesInit /\ DiscoveryInit /\ HeartbeatInit
  /\ part # "telemetry" => due.beat = 0
MCNext ==
  /\ part' = part
  /\ \/ part = "updates" /\ UpdatesNext /\ requests' < MaxRequests /\ UNCHANGED <<discoveryVars, heartbeatVars>>
     \/ part = "history" /\ UpdatesNext /\ NoRetry /\ UNCHANGED <<discoveryVars, heartbeatVars>>
     \/ part = "discovery" /\ DiscoveryNext /\ UNCHANGED <<updateVars, heartbeatVars>>
     \/ part = "telemetry" /\ HeartbeatNext /\ OneUpset /\ UNCHANGED <<updateVars, discoveryVars>>
     \/ part = "inventories" /\ HeartbeatNext /\ now' = now /\ UNCHANGED <<updateVars, discoveryVars>>
MCSpec == MCInit /\ [][MCNext]_mcVars

\* Requests of operators, discoveries and heartbeats are the same callers.
Symmetry == Permutations(Clients)
=============================================================================
