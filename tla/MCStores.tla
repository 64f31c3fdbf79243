----------------------------- MODULE MCStores -----------------------------
(* Small instances of the modules about what the controller keeps:          *)
(* BackupGate, BackupFiles, SecretStore, AgentRegistration,                 *)
(* TelemetryAlerts, UpdatePolicies, PackageUpdates.  They share no state; a *)
(* behaviour is about one of them, the others rest.                         *)
EXTENDS BackupGate, BackupFiles, SecretStore, AgentRegistration, TelemetryAlerts,
        UpdatePolicies, PackageUpdates, TLC

VARIABLE part

\* A window over midnight for one package, one by day for all, and one that
\* permits low risk only.
ThreeRules == {[packages |-> {"nginx"}, start |-> 2, end |-> 0, high |-> TRUE],
               [packages |-> {}, start |-> 1, end |-> 2, high |-> TRUE],
               [packages |-> {"nginx"}, start |-> 0, end |-> 2, high |-> FALSE]}
OneOrAll == {{"nginx"}, {"*"}}

mcVars == <<part, gateVars, fileVars, storeVars, registrationVars, alertVars, policyVars, updateVars>>
MCInit ==
  /\ part \in {"backups", "archives", "files", "clients", "alerts", "policies", "updates"}
  /\ GateInit /\ FilesInit /\ StoreInit /\ RegistrationInit /\ AlertInit /\ PoliciesInit /\ UpdatesInit
  /\ part # "alerts" => LatestSample.load = Normal
  /\ part # "updates" => /\ jobs[1].pkgs = {"nginx"}
                         /\ rule = [p \in Policies |-> CHOOSE r \in Rules : r.high /\ r.packages # {}]
MCNext ==
  \/ part = "backups" /\ GateNext
       /\ UNCHANGED <<part, fileVars, storeVars, registrationVars, alertVars, policyVars, updateVars>>
  \/ part = "archives" /\ FilesNext
       /\ UNCHANGED <<part, gateVars, storeVars, registrationVars, alertVars, policyVars, updateVars>>
  \/ part = "files" /\ StoreNext
       /\ UNCHANGED <<part, fileVars, gateVars, registrationVars, alertVars, policyVars, updateVars>>
  \/ part = "clients" /\ RegistrationNext
       /\ UNCHANGED <<part, fileVars, gateVars, storeVars, alertVars, policyVars, updateVars>>
  \/ part = "alerts" /\ AlertNext
       /\ UNCHANGED <<part, fileVars, gateVars, storeVars, registrationVars, policyVars, updateVars>>
  \/ part = "policies" /\ PoliciesNext
       /\ UNCHANGED <<part, fileVars, gateVars, storeVars, registrationVars, alertVars, updateVars>>
  \/ part = "updates" /\ UpdatesNext
       /\ UNCHANGED <<part, fileVars, gateVars, storeVars, registrationVars, alertVars, policyVars>>
MCSpec == MCInit /\ [][MCNext]_mcVars

\* Requests, holders of the secret store and operators are the same callers.
Symmetry == Permutations(Holders)
=============================================================================
