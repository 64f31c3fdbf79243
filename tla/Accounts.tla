------------------------------ MODULE Accounts ------------------------------
(***************************************************************************)
(* Operator accounts: the auth_users and auth_sessions tables, logins and  *)
(* the administration requests, each a sequence of SQL statements of its   *)
(* own.  A request works with the actor it authenticated first, whatever   *)
(* happens to that account meanwhile.                                      *)
(*                                                                         *)
(* update_user and delete_user are transactions of several statements      *)
(* under the advisory lock 718244114 (adminLock): lock, count the          *)
(* administrators, write.  Every other write is one transaction whose      *)
(* statements no other request can observe, and one step here.             *)
(***************************************************************************)
EXTENDS Naturals

CONSTANTS
  Users,        \* account ids; a deleted id is never used again
  Tokens,       \* session tokens; each is generated once
  Clients,      \* concurrent requests
  Operations,   \* the endpoints the requests call
  MaxFaults,    \* bound on storage errors
  NoUser, NoToken, NoClient

ASSUME NullAssumption == NoUser \notin Users /\ NoToken \notin Tokens /\ NoClient \notin Clients

VARIABLES
  users,        \* auth_users, with the ids not used yet and the deleted ones
  sess,         \* auth_sessions by token
  issued,       \* tokens returned to a browser
  logged,       \* tokens whose auth.login event says completed
  req,          \* the request of each client
  adminLock,    \* holder of the advisory lock
  faults

vars == <<users, sess, issued, logged, req, adminLock, faults>>

Roles == {"admin", "user"}
User == [life : {"unborn", "live", "deleted"}, role : Roles,
         disabled : BOOLEAN, must : BOOLEAN]
NoSession == [state |-> "none", user |-> NoUser]
Session == {NoSession} \cup [state : {"open", "revoked", "expired", "gone"}, user : Users]

AdminOps == {"create", "update", "delete", "reset"}
OwnOps == {"password", "logout"}

ASSUME BoundAssumption == MaxFaults \in Nat /\ Operations \subseteq AdminOps \cup OwnOps

Idle == [pc |-> "idle", op |-> "none", actor |-> NoUser, token |-> NoToken,
         must |-> FALSE, subject |-> NoUser, role |-> "user", disabled |-> FALSE]
Request ==
  {Idle} \cup
  [pc : {"authed", "run", "locked", "granted", "answer", "verified", "logging", "saved"},
   op : AdminOps \cup OwnOps \cup {"login"}, actor : Users \cup {NoUser}, token : Tokens,
   must : BOOLEAN, subject : Users, role : Roles, disabled : BOOLEAN]

Live(u) == users[u].life = "live"
Active(u) == Live(u) /\ ~users[u].disabled
ActiveAdmin(u) == Active(u) /\ users[u].role = "admin"

(* session_by_token_hash: the join that authenticates a request. *)
Valid(t) == sess[t].state = "open" /\ Active(sess[t].user)

Init ==
  /\ users = [u \in Users |-> [life |-> "unborn", role |-> "user",
                               disabled |-> FALSE, must |-> TRUE]]
  /\ sess = [t \in Tokens |-> NoSession]
  /\ issued = {} /\ logged = {}
  /\ req = [c \in Clients |-> Idle]
  /\ adminLock = NoClient
  /\ faults = 0

Goto(c, pc) == req' = [req EXCEPT ![c].pc = pc]
Done(c) == req' = [req EXCEPT ![c] = Idle]

(* Every open session of a user is revoked. *)
Revoked(t) == [sess[t] EXCEPT !.state = IF @ = "open" THEN "revoked" ELSE @]
RevokeAll(u, keep) ==
  sess' = [t \in Tokens |-> IF sess[t].user = u /\ t # keep THEN Revoked(t) ELSE sess[t]]

----------------------------------------------------------------------------
(* create_initial_admin, at controller start, under its own advisory lock. *)
CreateInitialAdmin(u) ==
  /\ \A v \in Users : ~Live(v)
  /\ users[u].life = "unborn"
  /\ users' = [users EXCEPT ![u] = [life |-> "live", role |-> "admin",
                                    disabled |-> FALSE, must |-> TRUE]]
  /\ UNCHANGED <<sess, issued, logged, req, adminLock, faults>>

----------------------------------------------------------------------------
(* auth_login *)

(* The user is read and the password verified against that copy.  A wrong  *)
(* password, or an unknown or disabled user, only adds an audit event.     *)
Fresh(t) == sess[t].state = "none" /\ \A c \in Clients : req[c].token # t

LoginVerify(c, u, t) ==
  /\ req[c] = Idle /\ Active(u) /\ Fresh(t)
  /\ req' = [req EXCEPT ![c] = [Idle EXCEPT !.pc = "verified", !.op = "login",
                                           !.subject = u, !.token = t]]
  /\ UNCHANGED <<users, sess, issued, logged, adminLock, faults>>

(* The pending audit event; its foreign key refuses a deleted actor. *)
LoginAppendAudit(c) ==
  /\ req[c].pc = "verified"
  /\ IF Live(req[c].subject) THEN Goto(c, "logging") ELSE Done(c)
  /\ UNCHANGED <<users, sess, issued, logged, adminLock, faults>>

LoginSaveSession(c) ==
  /\ req[c].pc = "logging"
  /\ IF Live(req[c].subject)
     THEN /\ sess' = [sess EXCEPT ![req[c].token] = [state |-> "open", user |-> req[c].subject]]
          /\ Goto(c, "saved")
     ELSE sess' = sess /\ Done(c)
  /\ UNCHANGED <<users, issued, logged, adminLock, faults>>

LoginCompleteAnyway(c) ==
  /\ req[c].pc = "saved"
  /\ \E ok \in BOOLEAN : logged' = IF ok THEN logged \cup {req[c].token} ELSE logged
  /\ issued' = issued \cup {req[c].token}
  /\ Done(c)
  /\ UNCHANGED <<users, sess, adminLock, faults>>

(* The audit event is completed and the cookie returned. *)
LoginComplete(c) ==
  /\ req[c].pc = "saved"
  /\ logged' = logged \cup {req[c].token}
  /\ issued' = issued \cup {req[c].token}
  /\ Done(c)
  /\ UNCHANGED <<users, sess, adminLock, faults>>

(* The audit update fails: the session is revoked, if that succeeds. *)
LoginRollback(c, stored) ==
  /\ req[c].pc = "saved" /\ faults < MaxFaults
  /\ faults' = faults + 1
  /\ sess' = IF stored THEN [sess EXCEPT ![req[c].token] = Revoked(req[c].token)] ELSE sess
  /\ Done(c)
  /\ UNCHANGED <<users, issued, logged, adminLock>>

----------------------------------------------------------------------------
(* request_middleware: the actor is loaded and authorised, then an audit   *)
(* event is reserved before the handler runs.                              *)

Authenticate(c, t, op, subject, role, disabled) ==
  /\ req[c] = Idle
  /\ t \in issued /\ Valid(t)
  /\ LET u == sess[t].user
     IN /\ op \in AdminOps => users[u].role = "admin" /\ ~users[u].must
        /\ op \in OwnOps => subject = u
        /\ op = "delete" => subject # u
        /\ req' = [req EXCEPT ![c] =
             [pc |-> "authed", op |-> op, actor |-> u, token |-> t, must |-> users[u].must,
              subject |-> subject, role |-> role, disabled |-> disabled]]
  /\ UNCHANGED <<users, sess, issued, logged, adminLock, faults>>

(* reserve_request_audit: refused by the foreign key once the actor is deleted. *)
ReserveAudit(c) ==
  /\ req[c].pc = "authed"
  /\ IF Live(req[c].actor) THEN Goto(c, "run") ELSE Done(c)
  /\ UNCHANGED <<users, sess, issued, logged, adminLock, faults>>

(* persist_request_audit_outcome; a failure leaves the event pending. *)
Answer(c) ==
  /\ req[c].pc = "answer"
  /\ Done(c)
  /\ UNCHANGED <<users, sess, issued, logged, adminLock, faults>>

(* The next statement of a handler or of a login fails; an open transaction *)
(* is rolled back with its lock.                                            *)
StorageError(c) ==
  /\ req[c].pc \in {"authed", "run", "locked", "granted", "verified", "logging"}
  /\ faults < MaxFaults /\ faults' = faults + 1
  /\ IF req[c].pc \in {"authed", "verified", "logging"} THEN Done(c) ELSE Goto(c, "answer")
  /\ adminLock' = IF adminLock = c THEN NoClient ELSE adminLock
  /\ UNCHANGED <<users, sess, issued, logged>>

----------------------------------------------------------------------------
(* The handlers of one transaction *)

CreateUser(c) ==
  LET u == req[c].subject
  IN /\ req[c].pc = "run" /\ req[c].op = "create"
     /\ users' = IF users[u].life = "unborn"
                 THEN [users EXCEPT ![u] = [life |-> "live", role |-> req[c].role,
                                            disabled |-> FALSE, must |-> TRUE]]
                 ELSE users
     /\ Goto(c, "answer")
     /\ UNCHANGED <<sess, issued, logged, adminLock, faults>>

ResetUserPassword(c) ==
  LET u == req[c].subject
  IN /\ req[c].pc = "run" /\ req[c].op = "reset"
     /\ IF Active(u) THEN /\ users' = [users EXCEPT ![u].must = TRUE]
                          /\ RevokeAll(u, NoToken)
                     ELSE UNCHANGED <<users, sess>>
     /\ Goto(c, "answer")
     /\ UNCHANGED <<issued, logged, adminLock, faults>>

ChangePassword(c) ==
  LET u == req[c].subject
  IN /\ req[c].pc = "run" /\ req[c].op = "password"
     /\ IF Active(u) THEN /\ users' = [users EXCEPT ![u].must = FALSE]
                          /\ RevokeAll(u, req[c].token)
                     ELSE UNCHANGED <<users, sess>>
     /\ Goto(c, "answer")
     /\ UNCHANGED <<issued, logged, adminLock, faults>>

(* A wrong current password ends the request; it is asked for unless the   *)
(* actor had to change it.                                                 *)
WrongPassword(c) ==
  /\ req[c].pc = "run" /\ req[c].op = "password" /\ ~req[c].must
  /\ Goto(c, "answer")
  /\ UNCHANGED <<users, sess, issued, logged, adminLock, faults>>

Logout(c) ==
  /\ req[c].pc = "run" /\ req[c].op = "logout"
  /\ sess' = [sess EXCEPT ![req[c].token] = Revoked(req[c].token)]
  /\ Goto(c, "answer")
  /\ UNCHANGED <<users, issued, logged, adminLock, faults>>

----------------------------------------------------------------------------
(* update_user and delete_user *)

UnlockedAdministration(c) ==
  /\ req[c].pc = "run" /\ req[c].op \in {"update", "delete"}
  /\ adminLock' = c
  /\ Goto(c, "locked")
  /\ UNCHANGED <<users, sess, issued, logged, faults>>

LockUserAdministration(c) ==
  /\ req[c].pc = "run" /\ req[c].op \in {"update", "delete"}
  /\ adminLock = NoClient
  /\ adminLock' = c
  /\ Goto(c, "locked")
  /\ UNCHANGED <<users, sess, issued, logged, faults>>

(* active_admins > 1 *)
SeveralAdmins == \E a, b \in Users : a # b /\ ActiveAdmin(a) /\ ActiveAdmin(b)

Reduces(r) == users[r.subject].role = "admin" /\
              (r.op = "delete" \/ r.role # "admin" \/ r.disabled)

CheckKeepingLock(c) ==
  LET r == req[c]
      ok == Live(r.subject) /\ (Reduces(r) => SeveralAdmins)
  IN /\ r.pc = "locked"
     /\ Goto(c, IF ok THEN "granted" ELSE "answer")
     /\ UNCHANGED <<users, sess, issued, logged, adminLock, faults>>

(* The existing role is read and, if the change takes an administrator     *)
(* away, the administrators are counted.  A refusal drops the transaction. *)
CheckLastAdmin(c) ==
  LET r == req[c]
      ok == Live(r.subject) /\ (Reduces(r) => SeveralAdmins)
  IN /\ r.pc = "locked"
     /\ Goto(c, IF ok THEN "granted" ELSE "answer")
     /\ adminLock' = IF ok THEN adminLock ELSE NoClient
     /\ UNCHANGED <<users, sess, issued, logged, faults>>

RevokeWhenDisabled(c) ==
  LET r == req[c]
  IN /\ r.pc = "granted" /\ r.op = "update"
     /\ users' = [users EXCEPT ![r.subject].role = r.role, ![r.subject].disabled = r.disabled]
     /\ IF r.disabled THEN RevokeAll(r.subject, NoToken) ELSE sess' = sess
     /\ adminLock' = NoClient
     /\ Goto(c, "answer")
     /\ UNCHANGED <<issued, logged, faults>>

(* UPDATE auth_users and the revocation of all its sessions, then COMMIT. *)
UpdateUser(c) ==
  LET r == req[c]
  IN /\ r.pc = "granted" /\ r.op = "update"
     /\ users' = [users EXCEPT ![r.subject].role = r.role, ![r.subject].disabled = r.disabled]
     /\ RevokeAll(r.subject, NoToken)
     /\ adminLock' = NoClient
     /\ Goto(c, "answer")
     /\ UNCHANGED <<issued, logged, faults>>

(* DELETE FROM auth_users cascades to the sessions. *)
DeleteUser(c) ==
  LET r == req[c]
  IN /\ r.pc = "granted" /\ r.op = "delete"
     /\ users' = [users EXCEPT ![r.subject].life = "deleted"]
     /\ sess' = [t \in Tokens |-> IF sess[t].user = r.subject
                                  THEN [sess[t] EXCEPT !.state = "gone"] ELSE sess[t]]
     /\ adminLock' = NoClient
     /\ Goto(c, "answer")
     /\ UNCHANGED <<issued, logged, faults>>

(* expires_at passes. *)
Expire(t) ==
  /\ sess[t].state = "open"
  /\ sess' = [sess EXCEPT ![t].state = "expired"]
  /\ UNCHANGED <<users, issued, logged, req, adminLock, faults>>

----------------------------------------------------------------------------
Handler(c) ==
  \/ LoginAppendAudit(c) \/ LoginSaveSession(c) \/ LoginComplete(c)
  \/ \E stored \in BOOLEAN : LoginRollback(c, stored)
  \/ ReserveAudit(c) \/ Answer(c) \/ StorageError(c)
  \/ CreateUser(c) \/ ResetUserPassword(c) \/ ChangePassword(c) \/ WrongPassword(c)
  \/ Logout(c)
  \/ LockUserAdministration(c) \/ CheckLastAdmin(c) \/ UpdateUser(c) \/ DeleteUser(c)

Arrival(c) ==
  \/ \E u \in Users, t \in Tokens : LoginVerify(c, u, t)
  \/ \E t \in Tokens, op \in Operations, u \in Users, role \in Roles,
        disabled \in BOOLEAN :
        /\ op # "update" => ~disabled
        /\ op \notin {"create", "update"} => role = "user"
        /\ Authenticate(c, t, op, u, role, disabled)

Next ==
  \/ \E u \in Users : CreateInitialAdmin(u)
  \/ \E c \in Clients : Arrival(c) \/ Handler(c)
  \/ \E t \in Tokens : Expire(t)

Spec == Init /\ [][Next]_vars

----------------------------------------------------------------------------
(* Every row and every request in flight has the shape of its type. *)
TypeOK ==
  /\ users \in [Users -> User]
  /\ sess \in [Tokens -> Session]
  /\ issued \subseteq Tokens /\ logged \subseteq Tokens
  /\ req \in [Clients -> Request]
  /\ adminLock \in Clients \cup {NoClient}
  /\ faults \in 0..MaxFaults

(* Once an account exists there is always an administrator who can sign in: *)
(* no interleaving of demotions, deactivations and deletions removes the    *)
(* last one (the LastAdmin guard under lock_user_administration).           *)
AdminRemains == (\E u \in Users : Live(u)) => \E a \in Users : ActiveAdmin(a)

(* A session that stopped being valid never becomes valid again, although a *)
(* login in flight may store one while its user is disabled: every change   *)
(* of a user, re-enabling included, revokes the user's sessions.            *)
SessionsNeverRevive ==
  [][\A t \in Tokens : sess[t].state # "none" /\ ~Valid(t) => ~Valid(t)']_vars

(* The tables are well typed, and every token a browser got has a completed *)
(* auth.login event, whatever storage error hits the login.                 *)
IssuedIsLogged == TypeOK /\ issued \subseteq logged

(* The advisory lock is held by a transaction that is still at work: no     *)
(* refusal, commit, storage error or deleted actor leaves it behind, which  *)
(* would block every later administration.                                  *)
LockReleased == \A c \in Clients : adminLock = c => req[c].pc \in {"locked", "granted"}

----------------------------------------------------------------------------
(* The inductive invariant behind AdminRemains. *)

(* The transaction past its lock is the lock's holder. *)
LockHeld == \A c \in Clients : req[c].pc \in {"locked", "granted"} => adminLock = c

(* A granted change finds its user alive and leaves an administrator. *)
GrantedIsSafe ==
  \A c \in Clients : req[c].pc = "granted" =>
    /\ Live(req[c].subject)
    /\ Reduces(req[c]) => \E a \in Users \ {req[c].subject} : ActiveAdmin(a)

(* Requests come from accounts; the accounts never all go away again. *)
RequestsHaveAccounts ==
  (\E c \in Clients : req[c].pc # "idle") => \E u \in Users : Live(u)

AdminInv == TypeOK /\ AdminRemains /\ LockHeld /\ GrantedIsSafe /\ RequestsHaveAccounts
=============================================================================
