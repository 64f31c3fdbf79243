--------------------------- MODULE SecretRegister ---------------------------
(* What a secret store promises, as the provider of the application tests   *)
(* keeps it (InMemorySecretStore): one record per secret, every operation   *)
(* one step under the map's lock.  A secret whose changes overlapped, or    *)
(* one of whose changes stopped half-way, is "unspecified": the trait gives *)
(* no promise for it, and the file provider keeps none.                     *)
EXTENDS Naturals

CONSTANTS
  Secrets,  \* identifiers, drawn afresh by every creation
  Values,   \* secret material
  NoValue   \* what a record without one holds
ASSUME ValuesAssumption == NoValue \notin Values

VARIABLE record

Statuses == {"unused", "active", "revoked", "deleted", "unspecified"}
Blank(status) == [status |-> status, value |-> NoValue]
RegisterTypeOK == record \in [Secrets -> [status : Statuses, value : Values \cup {NoValue}]]

RegisterInit == record = [s \in Secrets |-> Blank("unused")]

Put(s, r) == record' = [record EXCEPT ![s] = r]

CreateSecret(s, v) ==
  record[s].status = "unused" /\ Put(s, [status |-> "active", value |-> v])

\* What a read answers: a revoked secret is denied, a missing one is missing.
Readable(s) == record[s].status = "active"

\* update, and rotate, which is the same call.
UpdateSecret(s, v) == Readable(s) /\ Put(s, [record[s] EXCEPT !.value = v])

RevokeSecret(s) ==
  record[s].status \in {"active", "revoked"} /\ Put(s, [record[s] EXCEPT !.status = "revoked"])

DeleteSecret(s) == record[s].status \in {"active", "revoked"} /\ Put(s, Blank("deleted"))

\* One crash may stop changes of several secrets.
Spoil(S) == record' = [s \in Secrets |-> IF s \in S THEN Blank("unspecified") ELSE record[s]]

RegisterNext ==
  \/ \E s \in Secrets :
       \/ \E v \in Values : CreateSecret(s, v) \/ UpdateSecret(s, v)
       \/ RevokeSecret(s) \/ DeleteSecret(s)
  \/ \E S \in SUBSET Secrets : Spoil(S)

RegisterSpec == RegisterInit /\ [][RegisterNext]_record
=============================================================================
