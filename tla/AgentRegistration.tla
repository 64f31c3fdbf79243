------------------------- MODULE AgentRegistration -------------------------
(* The controller's agent clients and the credentials they carry.  A client *)
(* is built from a secret when an agent is registered, or restored from the *)
(* agent_registrations table, and lives in memory (state.agents); rotating, *)
(* revoking or deleting the secret drops the clients that the table says    *)
(* use it.  Between two awaits of one request the steps of the others fall. *)
(* The store is SecretRegister, which SecretStore implements; the audit log *)
(* of the changes is written last.                                          *)
EXTENDS SecretRegister, FiniteSets

CONSTANTS
  Calls,     \* requests in flight at one time
  Containers,   \* containers an agent can be registered for
  NoOne,        \* no client, no row, no container
  MaxCalls,  \* bound: requests in a behaviour
  MaxFailures   \* bound: database statements that fail, and restarts
ASSUME CallsAssumption == IsFiniteSet(Calls)

VARIABLES
  agents,   \* state.agents: the client of a container and its credential
  rows,     \* agent_registrations
  call,     \* the requests in flight
  audit,    \* number of audit entries per secret and kind of change
  changed,  \* history: changes of a secret the store has made
  answered, \* history: changes whose request was answered with success
  raced,    \* history: containers whose client the change of a secret could not see
  quota     \* requests and failures left
registrationVars == <<record, agents, rows, call, audit, changed, answered, raced, quota>>

ChangeKinds == {"rotate", "revoke", "delete"}
CallKinds == ChangeKinds \cup {"register", "health"}
Free == [kind |-> "none", at |-> "free", sec |-> NoOne, con |-> NoOne, val |-> NoValue, copies |-> {}]
NoClient == [sec |-> NoOne, val |-> NoValue]
NoRow == [sec |-> NoOne, state |-> "none"]

RegistrationInit ==
  /\ record = [s \in Secrets |-> Blank("unused")]
  /\ agents = [c \in Containers |-> NoClient] /\ rows = [c \in Containers |-> NoRow]
  /\ call = [r \in Calls |-> Free]
  /\ audit = [k \in ChangeKinds |-> 0] /\ changed = [k \in ChangeKinds |-> 0] /\ answered = [k \in ChangeKinds |-> 0]
  /\ raced = {} /\ quota = [requests |-> MaxCalls, failures |-> MaxFailures]

Takes(r, q) ==
  /\ call[r] = Free /\ quota.requests > 0
  /\ call' = [call EXCEPT ![r] = q]
  /\ quota' = [quota EXCEPT !.requests = @ - 1]
Proceeds(r, step) == call' = [call EXCEPT ![r].at = step]
Answered(r) == call' = [call EXCEPT ![r] = Free]
Fails == quota.failures > 0 /\ quota' = [quota EXCEPT !.failures = @ - 1]

\* agent_registrations.save: a row per container, the last one stays.
SaveRow(c, sec, state) == rows' = [rows EXCEPT ![c] = [sec |-> sec, state |-> state]]

\* create_secret; its audit entry is not followed further.
CreateAgentToken(s, v) ==
  /\ CreateSecret(s, v)
  /\ UNCHANGED <<agents, rows, call, audit, changed, answered, raced, quota>>

\* register_agent up to the health call: the secret is read here.
RegisterAgent(r, c, s) ==
  /\ Readable(s)
  /\ Takes(r, [Free EXCEPT !.kind = "register", !.at = "call", !.sec = s, !.con = c, !.val = record[s].value])
  /\ UNCHANGED <<record, agents, rows, audit, changed, answered, raced>>

\* The agent answers the health call, or does not.
RegisteredAgentAnswers(r) ==
  LET q == call[r] IN
  /\ q.kind = "register" /\ q.at = "call"
  /\ \/ agents' = [agents EXCEPT ![q.con] = [sec |-> q.sec, val |-> q.val]] /\ Proceeds(r, "save")
     \/ Answered(r) /\ UNCHANGED agents
  /\ UNCHANGED <<record, rows, audit, changed, answered, raced, quota>>

SaveRegistration(r) ==
  LET q == call[r] IN
  /\ q.kind = "register" /\ q.at = "save" /\ Answered(r)
  /\ \/ SaveRow(q.con, q.sec, "connected")
          /\ UNCHANGED quota
     \/ Fails /\ UNCHANGED rows
  /\ UNCHANGED <<record, agents, audit, changed, answered, raced>>

\* revoke_agent: the client goes, the row stays.
RevokeAgent(c) ==
  /\ agents[c] # NoClient /\ agents' = [agents EXCEPT ![c] = NoClient]
  /\ UNCHANGED <<record, rows, call, audit, changed, answered, raced, quota>>

\* get_agent_health: the client is called, the row is read and written back.
GetAgentHealth(r, c) ==
  /\ agents[c] # NoClient
  /\ Takes(r, [Free EXCEPT !.kind = "health", !.at = "call", !.con = c])
  /\ UNCHANGED <<record, agents, rows, audit, changed, answered, raced>>
FindRegistration(r) ==
  LET q == call[r] IN
  /\ q.kind = "health" /\ q.at = "call"
  /\ IF rows[q.con] = NoRow THEN Answered(r)
     ELSE \E found \in {"connected", "degraded", "unreachable"} :
            call' = [call EXCEPT ![r].at = "save", ![r].sec = rows[q.con].sec,
                                       ![r].copies = {[con |-> q.con, sec |-> rows[q.con].sec, state |-> found]}]
  /\ UNCHANGED <<record, agents, rows, audit, changed, answered, raced, quota>>
RecordHealth(r) ==
  LET q == call[r] IN
  /\ q.kind = "health" /\ q.at = "save" /\ Answered(r)
  /\ \/ \E copy \in q.copies : SaveRow(copy.con, copy.sec, copy.state)
     \/ UNCHANGED rows
  /\ UNCHANGED <<record, agents, audit, changed, answered, raced, quota>>

\* rotate_secret, revoke_secret, delete_secret: the store is changed first.
ChangeSecret(r, kind, s) ==
  /\ Takes(r, [Free EXCEPT !.kind = kind, !.at = "list", !.sec = s])
  /\ CASE kind = "rotate" -> \E v \in Values \ {record[s].value} : UpdateSecret(s, v)
       [] kind = "revoke" -> RevokeSecret(s)
       [] kind = "delete" -> DeleteSecret(s)
  /\ changed' = [changed EXCEPT ![kind] = @ + 1]
  /\ raced' = raced \cup {call[q].con : q \in {x \in Calls : call[x].kind = "register" /\ call[x].sec = s}}
  /\ UNCHANGED <<agents, rows, audit, answered>>

\* invalidate_registered_agents: the rows that name the secret are listed;
\* a failing list drops nothing.
ListRegistrations(r) ==
  LET q == call[r]
      named == {c \in Containers : rows[c].sec = q.sec} IN
  /\ q.kind \in ChangeKinds /\ q.at = "list"
  /\ \/ call' = [call EXCEPT ![r].at = "drop",
                      ![r].copies = {[con |-> c, sec |-> rows[c].sec, state |-> "unreachable"] : c \in named}]
          /\ raced' = raced \cup {c \in Containers \ named : agents[c].sec = q.sec} /\ UNCHANGED quota
     \/ Fails /\ Proceeds(r, "answer") /\ raced' = raced \cup {c \in Containers : agents[c].sec = q.sec}
  /\ UNCHANGED <<record, agents, rows, audit, changed, answered>>

\* Mutant: the row is marked, the client stays.
LeaveClient(r) ==
  LET q == call[r] IN
  /\ q.kind \in ChangeKinds /\ q.at = "drop" /\ UNCHANGED agents
  /\ IF q.copies = {} THEN Proceeds(r, "answer")
     ELSE \E copy \in q.copies : call' = [call EXCEPT ![r].at = "unreachable", ![r].con = copy.con]
  /\ UNCHANGED <<record, rows, audit, changed, answered, raced, quota>>

\* The client of one of them is removed, then the row is written back.
RemoveClient(r) ==
  LET q == call[r] IN
  /\ q.kind \in ChangeKinds /\ q.at = "drop"
  /\ IF q.copies = {} THEN Proceeds(r, "answer") /\ UNCHANGED agents
     ELSE \E copy \in q.copies :
            /\ agents' = [agents EXCEPT ![copy.con] = NoClient]
            /\ call' = [call EXCEPT ![r].at = "unreachable", ![r].con = copy.con]
  /\ UNCHANGED <<record, rows, audit, changed, answered, raced, quota>>
RecordUnreachable(r) ==
  LET q == call[r] IN
  /\ q.kind \in ChangeKinds /\ q.at = "unreachable"
  /\ \E copy \in {x \in q.copies : x.con = q.con} :
       /\ SaveRow(copy.con, copy.sec, copy.state)
       /\ call' = [call EXCEPT ![r].at = "drop", ![r].copies = @ \ {copy}, ![r].con = NoOne]
  /\ UNCHANGED <<record, agents, audit, changed, answered, raced, quota>>

\* rotate and revoke read the metadata again for their answer, and fail when
\* the secret has gone; record_secret_audit then writes the entry.
RecordSecretAudit(r) ==
  LET q == call[r]
      gone == q.kind # "delete" /\ record[q.sec].status = "deleted" IN
  /\ q.kind \in ChangeKinds /\ q.at = "answer" /\ Answered(r)
  /\ \/ /\ ~gone
        /\ audit' = [audit EXCEPT ![q.kind] = @ + 1]
        /\ answered' = [answered EXCEPT ![q.kind] = @ + 1] /\ UNCHANGED quota
     \/ gone /\ UNCHANGED <<audit, answered, quota>>
     \/ Fails /\ UNCHANGED <<audit, answered>>
  /\ UNCHANGED <<record, agents, rows, changed, raced>>

\* The controller stops; restore_registered_agents runs before it serves.
RestoreRegisteredAgents ==
  /\ Fails
  /\ call' = [r \in Calls |-> Free]
  /\ agents' = [c \in Containers |->
                  IF rows[c] # NoRow /\ Readable(rows[c].sec)
                    THEN [sec |-> rows[c].sec, val |-> record[rows[c].sec].value] ELSE NoClient]
  /\ raced' = {}
  /\ UNCHANGED <<record, rows, audit, changed, answered>>

CallStep(r) ==
  \/ \E c \in Containers : GetAgentHealth(r, c) \/ \E s \in Secrets : RegisterAgent(r, c, s)
  \/ RegisteredAgentAnswers(r) \/ SaveRegistration(r) \/ FindRegistration(r) \/ RecordHealth(r)
  \/ \E kind \in ChangeKinds, s \in Secrets : ChangeSecret(r, kind, s)
  \/ ListRegistrations(r) \/ RemoveClient(r) \/ RecordUnreachable(r) \/ RecordSecretAudit(r)
RegistrationNext ==
  \/ \E s \in Secrets, v \in Values : CreateAgentToken(s, v)
  \/ \E c \in Containers : RevokeAgent(c)
  \/ \E r \in Calls : CallStep(r)
  \/ RestoreRegisteredAgents
RegistrationSpec == RegistrationInit /\ [][RegistrationNext]_registrationVars

----------------------------------------------------------------------------
(* The types of the registrations and the requests.                         *)
RegistrationTypeOK ==
  /\ RegisterTypeOK
  /\ agents \in [Containers -> {NoClient} \cup [sec : Secrets, val : Values]]
  /\ rows \in [Containers -> {NoRow} \cup [sec : Secrets, state : {"connected", "degraded", "unreachable"}]]
  /\ raced \subseteq Containers
  /\ \A r \in Calls : call[r].kind \in CallKinds \cup {"none"}

Current(client) == record[client.sec].status = "active" /\ record[client.sec].value = client.val
BeingDropped(s) == \E r \in Calls : call[r].kind \in ChangeKinds /\ call[r].sec = s

(* invalidate_agents_for_secret: "so the previous credential cannot be used *)
(* through the lxcup API anymore".  Once the change of a secret is through, *)
(* no client carries the old value, except where a registration with it was *)
(* in flight, the list failed, or the table did not name the secret of the  *)
(* client: its row was not saved, or an older one was written over it.      *)
OldCredentialDropped ==
  \A c \in Containers : agents[c] # NoClient =>
    Current(agents[c]) \/ BeingDropped(agents[c].sec) \/ c \in raced

(* Every change answered with success has its audit entry, and no entry is  *)
(* without a change.                                                        *)
AuditTellsChanges ==
  \A k \in ChangeKinds : answered[k] <= audit[k] /\ audit[k] <= changed[k]

(* A change of a secret goes through to its end: the clients drop the old   *)
(* credential and the change is in the audit log, whatever registrations,   *)
(* health checks, failed statements and restarts fall between its steps.    *)
SecretChangesThrough == RegistrationTypeOK /\ OldCredentialDropped /\ AuditTellsChanges
=============================================================================
