--------------------------- MODULE AccountsProofs ---------------------------
(***************************************************************************)
(* Whatever the set of accounts, requests and storage errors, an account   *)
(* table that is not empty has an active administrator.  AdminRemains is   *)
(* not inductive: between the count and the write of update_user nothing   *)
(* in the table says that the write is harmless.  AdminInv adds that the   *)
(* transaction past its lock holds it alone (LockHeld), that another       *)
(* administrator exists while a reducing change is granted (GrantedIsSafe) *)
(* and that a request in flight means a table that is not empty.           *)
(***************************************************************************)
EXTENDS Accounts, TLAPS

(* The empty tables satisfy the invariant. *)
LEMMA InitAdmin == Init => AdminInv
  BY NullAssumption, BoundAssumption
  DEF Init, AdminInv, TypeOK, AdminRemains, LockHeld, GrantedIsSafe, RequestsHaveAccounts, Live,
      User, Session, Roles, Idle, Request, NoSession

(* Revoking sessions keeps the session table well typed. *)
LEMMA RevokeAllType ==
  ASSUME TypeOK, NEW u, NEW keep, RevokeAll(u, keep)
  PROVE  sess' \in [Tokens -> Session]
  BY DEF TypeOK, RevokeAll, Revoked, Session, NoSession

(* Steps that move a request but leave users, the lock and every "locked" *)
(* or "granted" request alone keep the invariant.                         *)
Quiet(c) ==
  /\ UNCHANGED users
  /\ req'[c].pc \notin {"locked", "granted"}
  /\ \A d \in Clients \ {c} : req'[d] = req[d]
  /\ adminLock' = adminLock
  /\ req[c].pc \notin {"locked", "granted"}
  /\ req[c].pc # "idle" \/ \E u \in Users : Live(u)

(* A quiet step keeps the invariant. *)
LEMMA QuietKeeps ==
  ASSUME AdminInv, NEW c \in Clients, Quiet(c), TypeOK'
  PROVE  AdminInv'
<1>1. AdminRemains' /\ LockHeld'
  BY DEF AdminInv, Quiet, AdminRemains, LockHeld, Live, ActiveAdmin, Active
<1>2. GrantedIsSafe'
  BY DEF AdminInv, Quiet, GrantedIsSafe, Live, ActiveAdmin, Active, Reduces
<1>3. RequestsHaveAccounts'
  BY DEF AdminInv, Quiet, RequestsHaveAccounts, Live
<1> QED BY <1>1, <1>2, <1>3 DEF AdminInv

(* Every step keeps every row and request well typed. *)
LEMMA TypeStep ==
  ASSUME TypeOK, [Next]_vars
  PROVE  TypeOK'
<1> USE DEF TypeOK
<1>0. Idle \in Request /\ \A c \in Clients : req[c] \in Request
  BY DEF Idle, Request, Roles
<1>a. ASSUME NEW c \in Clients, req[c].pc # "idle"
      PROVE  /\ req[c].subject \in Users /\ req[c].token \in Tokens
             /\ req[c].role \in Roles /\ req[c].disabled \in BOOLEAN
             /\ \A p \in {"authed", "run", "locked", "granted", "answer", "logging", "saved"} :
                  [req EXCEPT ![c].pc = p] \in [Clients -> Request]
  BY <1>a DEF Request, Idle
<1>b. ASSUME NEW c \in Clients PROVE [req EXCEPT ![c] = Idle] \in [Clients -> Request]
  BY <1>0
<1>1. ASSUME NEW u \in Users, CreateInitialAdmin(u) PROVE TypeOK'
  BY <1>1 DEF CreateInitialAdmin, User, Roles
<1>2. ASSUME NEW c \in Clients, Arrival(c) PROVE TypeOK'
  <2>1. ASSUME NEW u \in Users, NEW t \in Tokens, LoginVerify(c, u, t) PROVE TypeOK'
    BY <2>1 DEF LoginVerify, Idle, Request, Roles
  <2>2. ASSUME NEW t \in Tokens, NEW op \in Operations, NEW u \in Users, NEW role \in Roles,
               NEW disabled \in BOOLEAN, Authenticate(c, t, op, u, role, disabled)
        PROVE TypeOK'
    <3>1. sess[t].user \in Users /\ users[sess[t].user].must \in BOOLEAN
      BY <2>2 DEF Authenticate, Valid, Session, NoSession, User
    <3>2. op \in AdminOps \cup OwnOps
      BY BoundAssumption
    <3> QED BY <2>2, <3>1, <3>2 DEF Authenticate, Request
  <2> QED BY <1>2, <2>1, <2>2 DEF Arrival
<1>3. ASSUME NEW c \in Clients, Handler(c) PROVE TypeOK'
  <2>a. req[c].pc # "idle"
    BY <1>3 DEF Handler, LoginAppendAudit, LoginSaveSession, LoginComplete, LoginRollback,
         ReserveAudit, Answer,
          StorageError, CreateUser, ResetUserPassword, ChangePassword, WrongPassword, Logout,
          LockUserAdministration, CheckLastAdmin, UpdateUser, DeleteUser
  <2>b. /\ req[c].subject \in Users /\ req[c].token \in Tokens
        /\ req[c].role \in Roles /\ req[c].disabled \in BOOLEAN
    BY <2>a, <1>a
  <2>c. Done(c) \/ \E p \in {"authed", "run", "locked", "granted", "answer", "logging", "saved"} :
                     Goto(c, p)
    BY <1>3 DEF Handler, LoginAppendAudit, LoginSaveSession, LoginComplete, LoginRollback,
         ReserveAudit, Answer,
          StorageError, CreateUser, ResetUserPassword, ChangePassword, WrongPassword, Logout,
          LockUserAdministration, CheckLastAdmin, UpdateUser, DeleteUser
  <2>d. req' \in [Clients -> Request]
    <3>1. CASE Done(c)
      BY <3>1, <1>b DEF Done
    <3>2. ASSUME NEW p \in {"authed", "run", "locked", "granted", "answer", "logging", "saved"},
                 Goto(c, p)
          PROVE  req' \in [Clients -> Request]
      BY <2>a, <3>2, <1>a DEF Goto
    <3> QED BY <2>c, <3>1, <3>2
  <2>1. CASE LoginAppendAudit(c)
    BY <2>1, <2>b, <2>d DEF LoginAppendAudit
  <2>2. CASE LoginSaveSession(c)
    BY <2>2, <2>b, <2>d DEF LoginSaveSession, Session, NoSession
  <2>3. CASE LoginComplete(c)
    BY <2>3, <2>b, <2>d DEF LoginComplete
  <2>4. ASSUME NEW stored \in BOOLEAN, LoginRollback(c, stored) PROVE TypeOK'
    BY <2>4, <2>b, <2>d, BoundAssumption DEF LoginRollback, Revoked, Session, NoSession
  <2>5. CASE ReserveAudit(c) \/ Answer(c)
    BY <2>5, <2>b, <2>d DEF ReserveAudit, Answer
  <2>6. CASE StorageError(c)
    BY <2>6, <2>b, <2>d, BoundAssumption DEF StorageError
  <2>7. CASE CreateUser(c)
    BY <2>7, <2>b, <2>d DEF CreateUser, User
  <2>8. CASE ResetUserPassword(c)
    <3>1. sess' \in [Tokens -> Session]
      BY <2>8, RevokeAllType DEF ResetUserPassword
    <3>2. users' \in [Users -> User]
      <4>1. users' = users \/ users' = [users EXCEPT ![req[c].subject].must = TRUE]
        BY <2>8 DEF ResetUserPassword
      <4> QED BY <4>1, <2>b DEF User
    <3> QED BY <2>8, <3>1, <3>2, <2>d DEF ResetUserPassword
  <2>9. CASE ChangePassword(c)
    <3>1. sess' \in [Tokens -> Session]
      BY <2>9, RevokeAllType DEF ChangePassword
    <3>2. users' \in [Users -> User]
      <4>1. users' = users \/ users' = [users EXCEPT ![req[c].subject].must = FALSE]
        BY <2>9 DEF ChangePassword
      <4> QED BY <4>1, <2>b DEF User
    <3> QED BY <2>9, <3>1, <3>2, <2>d DEF ChangePassword
  <2>10. CASE WrongPassword(c)
    BY <2>10, <2>b, <2>d DEF WrongPassword
  <2>11. CASE Logout(c)
    BY <2>11, <2>b, <2>d DEF Logout, Revoked, Session, NoSession
  <2>12. CASE LockUserAdministration(c) \/ CheckLastAdmin(c)
    BY <2>12, <2>b, <2>d DEF LockUserAdministration, CheckLastAdmin
  <2>13. CASE UpdateUser(c)
    BY <2>13, <2>b, <2>d, RevokeAllType DEF UpdateUser, User
  <2>14. CASE DeleteUser(c)
    <3>1. sess' \in [Tokens -> Session]
      BY <2>14, <2>b DEF DeleteUser, Session, NoSession
    <3>2. users' \in [Users -> User]
      BY <2>14, <2>b DEF DeleteUser, User
    <3> QED BY <2>14, <3>1, <3>2, <2>d DEF DeleteUser
  <2> QED BY <1>3, <2>1, <2>2, <2>3, <2>4, <2>5, <2>6, <2>7, <2>8, <2>9, <2>10, <2>11,
             <2>12, <2>13, <2>14 DEF Handler
<1>4. ASSUME NEW t \in Tokens, Expire(t) PROVE TypeOK'
  BY <1>4 DEF Expire, Session, NoSession
<1>5. CASE UNCHANGED vars
  BY <1>5 DEF vars
<1> QED BY <1>1, <1>2, <1>3, <1>4, <1>5 DEF Next

(* What moving one request changes in req. *)
LEMMA GotoEffect ==
  ASSUME TypeOK, NEW c \in Clients, NEW p, Goto(c, p)
  PROVE  /\ req'[c] = [req[c] EXCEPT !.pc = p]
         /\ req'[c].pc = p
         /\ \A d \in Clients \ {c} : req'[d] = req[d]
<1>1. req[c] = Idle \/ req[c] \in Request \ {Idle}
  BY DEF TypeOK
<1>2. [req[c] EXCEPT !.pc = p].pc = p
  BY <1>1 DEF Request, Idle
<1> QED BY <1>2 DEF Goto, TypeOK

(* An answered request is idle and leaves the others alone. *)
LEMMA DoneEffect ==
  ASSUME TypeOK, NEW c \in Clients, Done(c)
  PROVE  /\ req'[c].pc = "idle"
         /\ \A d \in Clients \ {c} : req'[d] = req[d]
  BY DEF Done, TypeOK, Idle

(* A write under no lock that takes no administrator away. *)
Harmless(c) ==
  /\ \A u \in Users : users[u].life = "live" =>
       /\ users'[u].life = "live" /\ users'[u].role = users[u].role
       /\ users'[u].disabled = users[u].disabled
  /\ req'[c].pc = "answer" /\ req[c].pc = "run"
  /\ \A d \in Clients \ {c} : req'[d] = req[d]
  /\ adminLock' = adminLock

(* A harmless write keeps the invariant. *)
LEMMA HarmlessKeeps ==
  ASSUME AdminInv, NEW c \in Clients, Harmless(c), TypeOK'
  PROVE  AdminInv'
<1>0. PICK v \in Users : users[v].life = "live"
  BY DEF AdminInv, RequestsHaveAccounts, Harmless, Live
<1>1. AdminRemains'
  BY <1>0 DEF AdminInv, Harmless, AdminRemains, ActiveAdmin, Active, Live
<1>2. LockHeld'
  BY DEF AdminInv, Harmless, LockHeld
<1>3. GrantedIsSafe'
  <2> SUFFICES ASSUME NEW d \in Clients, req'[d].pc = "granted"
               PROVE  /\ Live(req[d].subject)'
                      /\ Reduces(req[d])' => \E a \in Users \ {req'[d].subject} : ActiveAdmin(a)'
    BY DEF GrantedIsSafe
  <2>1. d # c /\ req'[d] = req[d] /\ req[d].pc = "granted"
    BY DEF Harmless
  <2>2. /\ Live(req[d].subject)
        /\ Reduces(req[d]) => \E a \in Users \ {req[d].subject} : ActiveAdmin(a)
    BY <2>1 DEF AdminInv, GrantedIsSafe
  <2>3. req[d].subject \in Users
    BY <2>1 DEF AdminInv, TypeOK, Request, Idle
  <2> QED BY <2>1, <2>2, <2>3 DEF Harmless, Live, Active, ActiveAdmin, Reduces
<1>4. RequestsHaveAccounts'
  BY <1>0 DEF Harmless, RequestsHaveAccounts, Live
<1> QED BY <1>1, <1>2, <1>3, <1>4 DEF AdminInv

(* Every step keeps the last administrator. *)
LEMMA AdminStep ==
  ASSUME AdminInv, [Next]_vars
  PROVE  AdminInv'
<1>0. TypeOK /\ TypeOK'
  BY TypeStep DEF AdminInv
<1> USE <1>0
<1>1. ASSUME NEW u \in Users, CreateInitialAdmin(u) PROVE AdminInv'
  BY <1>1 DEF CreateInitialAdmin, AdminInv, TypeOK, AdminRemains, LockHeld, GrantedIsSafe,
              RequestsHaveAccounts, Live, Active, ActiveAdmin, Reduces
<1>2. ASSUME NEW c \in Clients, Arrival(c) PROVE AdminInv'
  <2>1. ASSUME NEW u \in Users, NEW t \in Tokens, LoginVerify(c, u, t) PROVE Quiet(c)
    BY <2>1 DEF LoginVerify, Quiet, TypeOK, Idle, Active
  <2>2. ASSUME NEW t \in Tokens, NEW op \in Operations, NEW u \in Users, NEW role \in Roles,
               NEW disabled \in BOOLEAN, Authenticate(c, t, op, u, role, disabled)
        PROVE  Quiet(c)
    <3>1. sess[t].user \in Users /\ Live(sess[t].user)
      BY <2>2 DEF Authenticate, Valid, Active, TypeOK, Session, NoSession
    <3> QED BY <2>2, <3>1 DEF Authenticate, Quiet, TypeOK, Idle
  <2> QED BY <1>2, <2>1, <2>2, QuietKeeps DEF Arrival
<1>3. ASSUME NEW c \in Clients, Handler(c) PROVE AdminInv'
  <2>0. \E u \in Users : Live(u)
    <3>1. req[c].pc # "idle"
      BY <1>3 DEF Handler, LoginAppendAudit, LoginSaveSession, LoginComplete, LoginRollback,
            ReserveAudit, Answer, StorageError, CreateUser, ResetUserPassword, ChangePassword,
            WrongPassword, Logout, LockUserAdministration, CheckLastAdmin, UpdateUser, DeleteUser
    <3> QED BY <3>1 DEF AdminInv, RequestsHaveAccounts
  <2>a. ASSUME UNCHANGED <<users, adminLock>>, req[c].pc \notin {"locked", "granted"},
               Done(c) \/ \E p \in {"logging", "run", "answer", "saved"} : Goto(c, p)
        PROVE  AdminInv'
    <3>1. req'[c].pc \notin {"locked", "granted"} /\ \A d \in Clients \ {c} : req'[d] = req[d]
      BY <2>a, GotoEffect, DoneEffect
    <3> QED BY <2>a, <2>0, <3>1, QuietKeeps DEF Quiet
  <2>1. CASE LoginAppendAudit(c) \/ ReserveAudit(c) \/ Answer(c) \/ WrongPassword(c)
    <3>1. CASE LoginAppendAudit(c)
      BY <3>1, <2>a DEF LoginAppendAudit
    <3>2. CASE ReserveAudit(c)
      BY <3>2, <2>a DEF ReserveAudit
    <3>3. CASE Answer(c) \/ WrongPassword(c)
      BY <3>3, <2>a DEF Answer, WrongPassword
    <3> QED BY <2>1, <3>1, <3>2, <3>3
  <2>2. CASE LoginSaveSession(c) \/ LoginComplete(c) \/ Logout(c)
             \/ \E stored \in BOOLEAN : LoginRollback(c, stored)
    <3>1. CASE LoginSaveSession(c)
      BY <3>1, <2>a DEF LoginSaveSession
    <3>2. CASE LoginComplete(c) \/ Logout(c)
      BY <3>2, <2>a DEF LoginComplete, Logout
    <3>3. ASSUME NEW stored \in BOOLEAN, LoginRollback(c, stored) PROVE AdminInv'
      BY <3>3, <2>a DEF LoginRollback
    <3> QED BY <2>2, <3>1, <3>2, <3>3
  <2>3. CASE StorageError(c)
    <3>1. /\ UNCHANGED users
          /\ adminLock' = IF adminLock = c THEN NoClient ELSE adminLock
          /\ Done(c) \/ Goto(c, "answer")
      BY <2>3 DEF StorageError
    <3>2. req'[c].pc \in {"idle", "answer"} /\ \A d \in Clients \ {c} : req'[d] = req[d]
      BY <3>1, GotoEffect, DoneEffect
    <3>3. LockHeld'
      BY <3>1, <3>2 DEF AdminInv, LockHeld
    <3>4. AdminRemains' /\ RequestsHaveAccounts'
      BY <3>1, <2>0 DEF AdminInv, AdminRemains, RequestsHaveAccounts, Live, Active, ActiveAdmin
    <3>5. GrantedIsSafe'
      BY <3>1, <3>2 DEF AdminInv, GrantedIsSafe, Live, Active, ActiveAdmin, Reduces
    <3> QED BY <3>3, <3>4, <3>5 DEF AdminInv
  <2>4. CASE CreateUser(c)
    <3>1. req[c].subject \in Users
      BY <2>4 DEF CreateUser, TypeOK, Request, Idle
    <3>2. Goto(c, "answer") /\ req[c].pc = "run" /\ adminLock' = adminLock
      BY <2>4 DEF CreateUser
    <3>3. \A u \in Users : users[u].life = "live" => users'[u] = users[u]
      BY <2>4, <3>1 DEF CreateUser, TypeOK
    <3> QED BY <3>2, <3>3, GotoEffect, HarmlessKeeps DEF Harmless
  <2>5. CASE ResetUserPassword(c) \/ ChangePassword(c)
    <3>1. req[c].subject \in Users
      BY <2>5 DEF ResetUserPassword, ChangePassword, TypeOK, Request, Idle
    <3>2. Goto(c, "answer") /\ req[c].pc = "run" /\ adminLock' = adminLock
      BY <2>5 DEF ResetUserPassword, ChangePassword
    <3>3. \/ users' = users
          \/ users' = [users EXCEPT ![req[c].subject].must = TRUE]
          \/ users' = [users EXCEPT ![req[c].subject].must = FALSE]
      <4>1. CASE ResetUserPassword(c)
        BY <4>1 DEF ResetUserPassword
      <4>2. CASE ChangePassword(c)
        BY <4>2 DEF ChangePassword
      <4> QED BY <2>5, <4>1, <4>2
    <3>4. \A u \in Users : users'[u].life = users[u].life /\ users'[u].role = users[u].role
                           /\ users'[u].disabled = users[u].disabled
      BY <3>1, <3>3 DEF TypeOK, User
    <3> QED BY <3>2, <3>4, GotoEffect, HarmlessKeeps DEF Harmless
  <2>6. CASE LockUserAdministration(c)
    <3>1. /\ UNCHANGED users /\ adminLock = NoClient /\ adminLock' = c
          /\ req'[c].pc = "locked" /\ \A d \in Clients \ {c} : req'[d] = req[d]
      BY <2>6, GotoEffect DEF LockUserAdministration
    <3>2. \A d \in Clients : req[d].pc \notin {"locked", "granted"}
      BY <3>1, NullAssumption DEF AdminInv, LockHeld
    <3> QED BY <3>1, <3>2, <2>0 DEF AdminInv, AdminRemains, LockHeld, GrantedIsSafe,
                                    RequestsHaveAccounts, Live, Active, ActiveAdmin
  <2>7. CASE CheckLastAdmin(c)
    <3>1. req[c].subject \in Users
      BY <2>7 DEF CheckLastAdmin, TypeOK, Request, Idle
    <3>2. AdminRemains' /\ LockHeld'
      BY <2>7, NullAssumption DEF CheckLastAdmin, SeveralAdmins, Goto, AdminInv, TypeOK,
           AdminRemains, LockHeld,
                  GrantedIsSafe, Live, Active, ActiveAdmin, Reduces
    <3>3. GrantedIsSafe'
      BY <2>7, NullAssumption DEF CheckLastAdmin, SeveralAdmins, Goto, AdminInv, TypeOK,
           AdminRemains, LockHeld,
                  GrantedIsSafe, Live, Active, ActiveAdmin, Reduces
    <3>4. RequestsHaveAccounts'
      BY <2>7, <2>0, <3>1 DEF CheckLastAdmin, AdminInv, AdminRemains, GrantedIsSafe, TypeOK,
                  RequestsHaveAccounts, Live, Active, ActiveAdmin, Reduces
    <3> QED BY <3>2, <3>3, <3>4 DEF AdminInv
  <2>8. CASE UpdateUser(c)
    <3>1. req[c].subject \in Users
      BY <2>8 DEF UpdateUser, TypeOK, Request, Idle
    <3>2. AdminRemains' /\ LockHeld'
      BY <2>8 DEF UpdateUser, Goto, AdminInv, TypeOK, AdminRemains, LockHeld,
                  GrantedIsSafe, Live, Active, ActiveAdmin, Reduces
    <3>3. GrantedIsSafe'
      BY <2>8 DEF UpdateUser, Goto, AdminInv, TypeOK, AdminRemains, LockHeld,
                  GrantedIsSafe, Live, Active, ActiveAdmin, Reduces
    <3>4. RequestsHaveAccounts'
      BY <2>8, <2>0, <3>1 DEF UpdateUser, AdminInv, AdminRemains, GrantedIsSafe, TypeOK,
                  RequestsHaveAccounts, Live, Active, ActiveAdmin, Reduces
    <3> QED BY <3>2, <3>3, <3>4 DEF AdminInv
  <2>9. CASE DeleteUser(c)
    <3>1. req[c].subject \in Users
      BY <2>9 DEF DeleteUser, TypeOK, Request, Idle
    <3>2. AdminRemains' /\ LockHeld'
      BY <2>9 DEF DeleteUser, Goto, AdminInv, TypeOK, AdminRemains, LockHeld,
                  GrantedIsSafe, Live, Active, ActiveAdmin, Reduces
    <3>3. GrantedIsSafe'
      BY <2>9 DEF DeleteUser, Goto, AdminInv, TypeOK, AdminRemains, LockHeld,
                  GrantedIsSafe, Live, Active, ActiveAdmin, Reduces
    <3>4. RequestsHaveAccounts'
      BY <2>9, <2>0, <3>1 DEF DeleteUser, AdminInv, AdminRemains, GrantedIsSafe, TypeOK,
                  RequestsHaveAccounts, Live, Active, ActiveAdmin, Reduces
    <3> QED BY <3>2, <3>3, <3>4 DEF AdminInv
  <2> QED BY <1>3, <2>1, <2>2, <2>3, <2>4, <2>5, <2>6, <2>7, <2>8, <2>9 DEF Handler
<1>4. ASSUME NEW t \in Tokens, Expire(t) PROVE AdminInv'
  BY <1>4 DEF Expire, AdminInv, AdminRemains, LockHeld, GrantedIsSafe, RequestsHaveAccounts,
              Live, Active, ActiveAdmin, Reduces
<1>5. CASE UNCHANGED vars
  BY <1>5 DEF vars, AdminInv, AdminRemains, LockHeld, GrantedIsSafe, RequestsHaveAccounts,
              Live, Active, ActiveAdmin, Reduces
<1> QED BY <1>1, <1>2, <1>3, <1>4, <1>5 DEF Next

(* An account table that is not empty always has an active administrator,  *)
(* for any number of concurrent update_user, delete_user and reset         *)
(* requests.                                                               *)
THEOREM LastAdminStays == Spec => []AdminRemains
<1>1. Spec => []AdminInv
  BY InitAdmin, AdminStep, PTL DEF Spec
<1>2. AdminInv => AdminRemains
  BY DEF AdminInv
<1> QED BY <1>1, <1>2, PTL

(* A step keeps the advisory lock with a transaction at work: who holds it *)
(* gives it up with its last statement, and who does not hold it never     *)
(* moves the holder.                                                       *)
LEMMA ReleaseStep ==
  ASSUME TypeOK, LockReleased, [Next]_vars
  PROVE  LockReleased'
<1>1. ASSUME NEW c \in Clients, Handler(c) PROVE LockReleased'
  <2>a. ASSUME UNCHANGED adminLock, req[c].pc \notin {"locked", "granted"},
               Done(c) \/ \E p \in {"logging", "run", "answer", "saved"} : Goto(c, p)
        PROVE  LockReleased'
    <3>1. \A d \in Clients \ {c} : req'[d] = req[d]
      BY <2>a, GotoEffect, DoneEffect
    <3> QED BY <2>a, <3>1 DEF LockReleased
  <2>b. ASSUME adminLock' = NoClient PROVE LockReleased'
    BY <2>b, NullAssumption DEF LockReleased
  <2>1. CASE LoginAppendAudit(c) \/ LoginSaveSession(c)
    <3>1. CASE LoginAppendAudit(c)
      BY <3>1, <2>a DEF LoginAppendAudit
    <3>2. CASE LoginSaveSession(c)
      BY <3>2, <2>a DEF LoginSaveSession
    <3> QED BY <2>1, <3>1, <3>2
  <2>2. CASE LoginComplete(c) \/ ReserveAudit(c) \/ Answer(c)
    <3>1. CASE ReserveAudit(c)
      BY <3>1, <2>a DEF ReserveAudit
    <3>2. CASE LoginComplete(c) \/ Answer(c)
      BY <3>2, <2>a DEF LoginComplete, Answer
    <3> QED BY <2>2, <3>1, <3>2
  <2>3. ASSUME NEW stored \in BOOLEAN, LoginRollback(c, stored) PROVE LockReleased'
    BY <2>3, <2>a DEF LoginRollback
  <2>4. CASE CreateUser(c) \/ ResetUserPassword(c) \/ ChangePassword(c)
    <3>1. Goto(c, "answer") /\ req[c].pc = "run" /\ adminLock' = adminLock
      BY <2>4 DEF CreateUser, ResetUserPassword, ChangePassword
    <3> QED BY <3>1, <2>a
  <2>5. CASE WrongPassword(c) \/ Logout(c)
    BY <2>5, <2>a DEF WrongPassword, Logout
  <2>6. CASE StorageError(c)
    <3>1. /\ adminLock' = IF adminLock = c THEN NoClient ELSE adminLock
          /\ Done(c) \/ Goto(c, "answer")
      BY <2>6 DEF StorageError
    <3>2. \A d \in Clients \ {c} : req'[d] = req[d]
      BY <3>1, GotoEffect, DoneEffect
    <3> QED BY <3>1, <3>2, NullAssumption DEF LockReleased
  <2>7. CASE LockUserAdministration(c)
    BY <2>7, GotoEffect DEF LockUserAdministration, LockReleased
  <2>8. CASE CheckLastAdmin(c)
    <3>1. /\ Goto(c, "granted") /\ adminLock' = adminLock
          \/ adminLock' = NoClient
      BY <2>8 DEF CheckLastAdmin
    <3> QED BY <3>1, <2>b, GotoEffect DEF LockReleased
  <2>9. CASE UpdateUser(c) \/ DeleteUser(c)
    BY <2>9, <2>b DEF UpdateUser, DeleteUser
  <2> QED BY <1>1, <2>1, <2>2, <2>3, <2>4, <2>5, <2>6, <2>7, <2>8, <2>9 DEF Handler
<1>2. ASSUME NEW c \in Clients, Arrival(c) PROVE LockReleased'
  <2>1. req[c] = Idle /\ adminLock' = adminLock /\ \A d \in Clients \ {c} : req'[d] = req[d]
    <3>1. ASSUME NEW u \in Users, NEW t \in Tokens, LoginVerify(c, u, t)
          PROVE  req[c] = Idle /\ adminLock' = adminLock /\ \A d \in Clients \ {c} : req'[d] = req[d]
      BY <3>1 DEF LoginVerify, TypeOK
    <3>2. ASSUME NEW t \in Tokens, NEW op, NEW u, NEW role, NEW disabled,
                 Authenticate(c, t, op, u, role, disabled)
          PROVE  req[c] = Idle /\ adminLock' = adminLock /\ \A d \in Clients \ {c} : req'[d] = req[d]
      BY <3>2 DEF Authenticate, TypeOK
    <3> QED BY <1>2, <3>1, <3>2 DEF Arrival
  <2> QED BY <2>1 DEF LockReleased, Idle
<1>3. ASSUME UNCHANGED <<req, adminLock>> PROVE LockReleased'
  BY <1>3 DEF LockReleased
<1> QED BY <1>1, <1>2, <1>3 DEF Next, CreateInitialAdmin, Expire, vars

(* The advisory lock 718244114 never outlives the transaction that took it: *)
(* whatever is refused, fails or is deleted, the next update_user or        *)
(* delete_user can take it.                                                 *)
THEOREM LockIsFreed == Spec => []LockReleased
<1>1. Init => TypeOK /\ LockReleased
  BY InitAdmin, NullAssumption DEF AdminInv, Init, LockReleased
<1>2. TypeOK /\ LockReleased /\ [Next]_vars => (TypeOK /\ LockReleased)'
  BY TypeStep, ReleaseStep
<1> QED BY <1>1, <1>2, PTL DEF Spec

(* Only a completed login touches the two sets of tokens, and it adds to   *)
(* both.                                                                   *)
LEMMA LoggedStep ==
  ASSUME [Next]_vars
  PROVE  \/ UNCHANGED <<issued, logged>>
         \/ \E t : issued' = issued \cup {t} /\ logged' = logged \cup {t}
<1>1. ASSUME NEW c \in Clients, Arrival(c) PROVE UNCHANGED <<issued, logged>>
  BY <1>1 DEF Arrival, LoginVerify, Authenticate
<1>2. ASSUME NEW c \in Clients, Handler(c)
      PROVE  \/ UNCHANGED <<issued, logged>>
             \/ \E t : issued' = issued \cup {t} /\ logged' = logged \cup {t}
  <2>1. CASE LoginComplete(c)
    BY <2>1 DEF LoginComplete
  <2>2. CASE ~ LoginComplete(c)
    BY <1>2, <2>2 DEF Handler, LoginAppendAudit, LoginSaveSession, LoginRollback, ReserveAudit,
         Answer, StorageError, CreateUser, ResetUserPassword, ChangePassword, WrongPassword,
         Logout, LockUserAdministration, CheckLastAdmin, UpdateUser, DeleteUser
  <2> QED BY <2>1, <2>2
<1>3. ASSUME NEW u \in Users, CreateInitialAdmin(u) PROVE UNCHANGED <<issued, logged>>
  BY <1>3 DEF CreateInitialAdmin
<1>4. ASSUME NEW t \in Tokens, Expire(t) PROVE UNCHANGED <<issued, logged>>
  BY <1>4 DEF Expire
<1>5. CASE UNCHANGED vars
  BY <1>5 DEF vars
<1> QED BY <1>1, <1>2, <1>3, <1>4, <1>5 DEF Next

(* No storage error and no race lets a browser have a token whose login    *)
(* the audit log does not show as completed (auth_login), and the tables   *)
(* stay well typed.                                                        *)
THEOREM IssuedTokensAreLogged == Spec => []IssuedIsLogged
<1>1. Init => IssuedIsLogged
  BY InitAdmin DEF AdminInv, Init, IssuedIsLogged
<1>2. IssuedIsLogged /\ [Next]_vars => IssuedIsLogged'
  BY TypeStep, LoggedStep DEF IssuedIsLogged
<1> QED BY <1>1, <1>2, PTL DEF Spec

----------------------------------------------------------------------------
(***************************************************************************)
(* Proof that a session that lost its validity never gets it back, for any *)
(* number of accounts, sessions, concurrent requests and storage errors.   *)
(***************************************************************************)

LoggingIn(c) == req[c].pc \in {"verified", "logging"}

(* A login in flight owns its token: nobody else carries it and no session *)
(* has been stored under it; its account has existed.                      *)
LoginsOwnTokens ==
  \A c \in Clients : LoggingIn(c) =>
    /\ sess[req[c].token].state = "none"
    /\ users[req[c].subject].life # "unborn"
    /\ \A d \in Clients \ {c} : req[d].token # req[c].token

(* A stored session belongs to an account that has existed. *)
SessionsHaveUsers ==
  \A t \in Tokens : sess[t].state # "none" =>
    sess[t].user \in Users /\ users[sess[t].user].life # "unborn"

(* A token that is or is about to be returned has a stored session. *)
IssuedIsStored ==
  /\ \A t \in issued : sess[t].state # "none"
  /\ \A c \in Clients : req[c].pc = "saved" => sess[req[c].token].state # "none"

SessionInv == TypeOK /\ LoginsOwnTokens /\ SessionsHaveUsers /\ IssuedIsStored

(* What every statement but the INSERT of a login may do to sessions. *)
Closing ==
  \A t \in Tokens :
    \/ sess'[t] = sess[t]
    \/ /\ sess[t].state # "none"
       /\ sess'[t].user = sess[t].user
       /\ sess'[t].state \in {"revoked", "expired", "gone"}

(* An account that has existed is never unborn again. *)
Kept == \A u \in Users : users[u].life # "unborn" => users'[u].life # "unborn"

(* The request c moves on without starting or continuing a login. *)
Moves(c) ==
  /\ req'[c].pc \notin {"verified", "logging", "saved"}
  /\ req'[c].token \in {req[c].token, NoToken}
  /\ \A d \in Clients \ {c} : req'[d] = req[d]

(* The sessions' records, as the type invariant gives them. *)
LEMMA SessionShape ==
  ASSUME TypeOK, NEW t \in Tokens
  PROVE  /\ sess[t].state \in {"none", "open", "revoked", "expired", "gone"}
         /\ sess[t].state # "none" => sess[t].user \in Users
         /\ sess[t].state = "none" => sess[t] = NoSession /\ sess[t].user = NoUser
         /\ Revoked(t).user = sess[t].user
         /\ Revoked(t).state = IF sess[t].state = "open" THEN "revoked" ELSE sess[t].state
         /\ sess[t].state # "open" => Revoked(t) = sess[t]
BY DEF TypeOK, Session, NoSession, Revoked

(* The request of a client that is not idle carries a token and a user. *)
LEMMA RequestShape ==
  ASSUME TypeOK, NEW c \in Clients, req[c].pc # "idle"
  PROVE  req[c].token \in Tokens /\ req[c].subject \in Users
BY DEF TypeOK, Request, Idle

(* Revoking all sessions of an account closes sessions and nothing else. *)
LEMMA RevokeAllCloses ==
  ASSUME TypeOK, NEW u \in Users, NEW keep, RevokeAll(u, keep)
  PROVE  Closing
BY SessionShape DEF RevokeAll, Closing, TypeOK

(* A step that closes sessions, keeps accounts and moves a request that is *)
(* not in a login keeps the invariant.                                     *)
LEMMA MovesKeep ==
  ASSUME SessionInv, TypeOK', Closing, Kept, issued' = issued,
         NEW c \in Clients, Moves(c)
  PROVE  SessionInv'
<1> USE DEF SessionInv
<1>1. LoginsOwnTokens'
  <2> SUFFICES ASSUME NEW d \in Clients, LoggingIn(d)'
               PROVE  /\ sess'[req'[d].token].state = "none"
                      /\ users'[req'[d].subject].life # "unborn"
                      /\ \A e \in Clients \ {d} : req'[e].token # req'[d].token
    BY DEF LoginsOwnTokens
  <2>1. d # c /\ req'[d] = req[d] /\ LoggingIn(d)
    BY DEF Moves, LoggingIn
  <2>2. req[d].token \in Tokens /\ req[d].subject \in Users
    BY <2>1, RequestShape DEF LoggingIn
  <2>3. sess[req[d].token].state = "none" /\ users[req[d].subject].life # "unborn"
        /\ \A e \in Clients \ {d} : req[e].token # req[d].token
    BY <2>1 DEF LoginsOwnTokens
  <2>4. \A e \in Clients \ {d} : req'[e].token # req'[d].token
    BY <2>1, <2>2, <2>3, NullAssumption DEF Moves
  <2> QED BY <2>1, <2>2, <2>3, <2>4 DEF Closing, Kept
<1>2. SessionsHaveUsers'
  BY DEF SessionsHaveUsers, Closing, Kept
<1>3. \A t \in issued' : sess'[t].state # "none"
  BY DEF IssuedIsStored, Closing, TypeOK
<1>4. \A d \in Clients : req'[d].pc = "saved" => sess'[req'[d].token].state # "none"
  <2> SUFFICES ASSUME NEW d \in Clients, req'[d].pc = "saved"
               PROVE  sess'[req'[d].token].state # "none"
    OBVIOUS
  <2>1. req'[d] = req[d]
    BY DEF Moves
  <2>2. req[d].token \in Tokens /\ sess[req[d].token].state # "none"
    BY <2>1, RequestShape DEF IssuedIsStored
  <2> QED BY <2>1, <2>2 DEF Closing
<1> QED BY <1>1, <1>2, <1>3, <1>4 DEF IssuedIsStored

(* The statements of the administration and of the own account. *)
LEMMA ChangeStep ==
  ASSUME SessionInv, TypeOK', NEW c \in Clients,
         \/ CreateUser(c) \/ ResetUserPassword(c) \/ ChangePassword(c) \/ WrongPassword(c)
         \/ Logout(c) \/ LockUserAdministration(c) \/ CheckLastAdmin(c)
         \/ UpdateUser(c) \/ DeleteUser(c)
  PROVE  Closing /\ Kept /\ issued' = issued /\ Moves(c)
<1>0. TypeOK /\ req[c].pc # "idle" /\ req[c].subject \in Users /\ req[c].token \in Tokens
  BY RequestShape DEF SessionInv, CreateUser, ResetUserPassword, ChangePassword, WrongPassword, Logout,
     LockUserAdministration, CheckLastAdmin, UpdateUser, DeleteUser
<1>a. ASSUME NEW p \in {"run", "answer", "locked", "granted"}, Goto(c, p) PROVE Moves(c)
  <2>1. req'[c] = [req[c] EXCEPT !.pc = p] /\ \A d \in Clients \ {c} : req'[d] = req[d]
    BY <1>0, <1>a, GotoEffect
  <2>2. req'[c].pc = p
    BY <1>0, <1>a, GotoEffect
  <2>3. req'[c].token = req[c].token
    BY <2>1
  <2> QED BY <1>a, <2>1, <2>2, <2>3 DEF Moves
<1>b. ASSUME sess' = sess PROVE Closing
  BY <1>b DEF Closing
<1>c. ASSUME users' = users PROVE Kept
  BY <1>c DEF Kept
<1>1. CASE CreateUser(c)
  <2>1. Kept
    BY <1>1, <1>0 DEF CreateUser, Kept, TypeOK
  <2> QED BY <1>1, <2>1, <1>a, <1>b DEF CreateUser
<1>2. CASE ResetUserPassword(c)
  <2>1. Kept
    BY <1>2, <1>0 DEF ResetUserPassword, Kept, TypeOK, User
  <2>2. Closing
    BY <1>2, <1>0, <1>b, RevokeAllCloses DEF ResetUserPassword
  <2> QED BY <1>2, <2>1, <2>2, <1>a DEF ResetUserPassword
<1>3. CASE ChangePassword(c)
  <2>1. Kept
    BY <1>3, <1>0 DEF ChangePassword, Kept, TypeOK, User
  <2>2. Closing
    BY <1>3, <1>0, <1>b, RevokeAllCloses DEF ChangePassword
  <2> QED BY <1>3, <2>1, <2>2, <1>a DEF ChangePassword
<1>4. CASE WrongPassword(c)
  BY <1>4, <1>a, <1>b, <1>c DEF WrongPassword
<1>5. CASE Logout(c)
  <2>1. Closing
    BY <1>5, <1>0, SessionShape DEF Logout, Closing, TypeOK
  <2> QED BY <1>5, <2>1, <1>a, <1>c DEF Logout
<1>6. CASE LockUserAdministration(c)
  BY <1>6, <1>a, <1>b, <1>c DEF LockUserAdministration
<1>7. CASE CheckLastAdmin(c)
  <2>1. Goto(c, "granted") \/ Goto(c, "answer")
    BY <1>7 DEF CheckLastAdmin
  <2> QED BY <1>7, <2>1, <1>a, <1>b, <1>c DEF CheckLastAdmin
<1>8. CASE UpdateUser(c)
  <2>1. Kept
    BY <1>8, <1>0 DEF UpdateUser, Kept, TypeOK, User
  <2>2. Closing
    BY <1>8, <1>0, RevokeAllCloses DEF UpdateUser
  <2> QED BY <1>8, <2>1, <2>2, <1>a DEF UpdateUser
<1>9. CASE DeleteUser(c)
  <2>1. Kept
    BY <1>9, <1>0 DEF DeleteUser, Kept, TypeOK, User
  <2>2. Closing
    <3> SUFFICES ASSUME NEW t \in Tokens, sess[t].user = req[c].subject
                 PROVE  /\ sess[t].state # "none"
                        /\ sess'[t].user = sess[t].user /\ sess'[t].state = "gone"
      BY <1>9 DEF DeleteUser, Closing
    <3>1. sess[t].state # "none"
      BY <1>0, SessionShape, NullAssumption
    <3>2. sess'[t] = [sess[t] EXCEPT !.state = "gone"]
      BY <1>9 DEF DeleteUser
    <3>3. sess[t] \in [state : {"open", "revoked", "expired", "gone"}, user : Users]
      BY <1>0, <3>1 DEF TypeOK, Session, NoSession
    <3> QED BY <3>1, <3>2, <3>3
  <2> QED BY <1>9, <2>1, <2>2, <1>a DEF DeleteUser
<1> QED BY <1>1, <1>2, <1>3, <1>4, <1>5, <1>6, <1>7, <1>8, <1>9

(* Steps that end a request, refuse it or answer it leave tables alone. *)
LEMMA LeaveStep ==
  ASSUME SessionInv, TypeOK', NEW c \in Clients, UNCHANGED <<users, sess, issued>>,
         Done(c) \/ \E p \in {"run", "answer"} : Goto(c, p)
  PROVE  SessionInv'
<1>0. TypeOK
  BY DEF SessionInv
<1>1. Closing /\ Kept
  BY DEF Closing, Kept
<1>2. Moves(c)
  <2>1. CASE Done(c)
    <3>1. req'[c] = Idle
      BY <1>0, <2>1 DEF Done, TypeOK
    <3> QED BY <1>0, <2>1, <3>1, DoneEffect DEF Moves, Idle
  <2>2. ASSUME NEW p \in {"run", "answer"}, Goto(c, p) PROVE Moves(c)
    <3>1. /\ req'[c] = [req[c] EXCEPT !.pc = p] /\ req'[c].pc = p
          /\ \A d \in Clients \ {c} : req'[d] = req[d]
      BY <1>0, <2>2, GotoEffect
    <3>2. req'[c].token = req[c].token
      BY <3>1
    <3> QED BY <2>2, <3>1, <3>2 DEF Moves
  <2> QED BY <2>1, <2>2
<1> QED BY <1>1, <1>2, MovesKeep

(* A login: its token is fresh until its session is stored under it. *)
LEMMA LoginStep ==
  ASSUME SessionInv, TypeOK', NEW c \in Clients,
         \/ LoginAppendAudit(c) \/ LoginSaveSession(c) \/ LoginComplete(c)
         \/ \E stored \in BOOLEAN : LoginRollback(c, stored)
  PROVE  SessionInv'
<1>0. TypeOK /\ req[c].pc # "idle" /\ req[c].subject \in Users /\ req[c].token \in Tokens
  BY RequestShape DEF SessionInv, LoginAppendAudit, LoginSaveSession, LoginComplete, LoginRollback
<1>a. ASSUME NEW p, Goto(c, p)
      PROVE  /\ req'[c].pc = p /\ req'[c].token = req[c].token /\ req'[c].subject = req[c].subject
             /\ \A d \in Clients \ {c} : req'[d] = req[d]
  <2>1. /\ req'[c] = [req[c] EXCEPT !.pc = p] /\ req'[c].pc = p
        /\ \A d \in Clients \ {c} : req'[d] = req[d]
    BY <1>0, <1>a, GotoEffect
  <2> QED BY <2>1
<1>b. ASSUME Done(c) PROVE Moves(c)
  <2>1. req'[c] = Idle
    BY <1>0, <1>b DEF Done, TypeOK
  <2> QED BY <1>0, <1>b, <2>1, DoneEffect DEF Moves, Idle
<1>1. CASE LoginAppendAudit(c)
  <2>1. UNCHANGED <<users, sess, issued>> /\ req[c].pc = "verified"
        /\ (Goto(c, "logging") \/ Done(c))
    BY <1>1 DEF LoginAppendAudit
  <2>2. CASE Done(c)
    BY <2>1, <2>2, LeaveStep
  <2>3. CASE Goto(c, "logging")
    <3>1. \A d \in Clients : /\ req'[d].token = req[d].token /\ req'[d].subject = req[d].subject
                             /\ LoggingIn(d)' <=> LoggingIn(d)
                             /\ req'[d].pc = "saved" <=> req[d].pc = "saved"
      BY <2>1, <2>3, <1>a DEF LoggingIn
    <3>2. LoginsOwnTokens'
      BY <2>1, <3>1 DEF SessionInv, LoginsOwnTokens
    <3>3. SessionsHaveUsers' /\ IssuedIsStored'
      BY <2>1, <3>1 DEF SessionInv, SessionsHaveUsers, IssuedIsStored
    <3> QED BY <3>2, <3>3 DEF SessionInv
  <2> QED BY <2>1, <2>2, <2>3
<1>2. CASE LoginSaveSession(c)
  <2>1. CASE ~Live(req[c].subject)
    BY <1>2, <2>1, LeaveStep DEF LoginSaveSession
  <2>2. CASE Live(req[c].subject)
    <3>0. LoggingIn(c) /\ UNCHANGED <<users, issued>> /\ Goto(c, "saved")
      BY <1>2, <2>2 DEF LoginSaveSession, LoggingIn
    <3>1. /\ req'[c].pc = "saved" /\ req'[c].token = req[c].token
          /\ \A d \in Clients \ {c} : req'[d] = req[d]
      BY <3>0, <1>a
    <3>2. /\ sess'[req[c].token].state = "open" /\ sess'[req[c].token].user = req[c].subject
          /\ \A t \in Tokens \ {req[c].token} : sess'[t] = sess[t]
      BY <1>2, <2>2, <1>0 DEF LoginSaveSession, TypeOK
    <3>3. LoginsOwnTokens'
      <4> SUFFICES ASSUME NEW d \in Clients, LoggingIn(d)'
                   PROVE  /\ sess'[req'[d].token].state = "none"
                          /\ users'[req'[d].subject].life # "unborn"
                          /\ \A e \in Clients \ {d} : req'[e].token # req'[d].token
        BY DEF LoginsOwnTokens
      <4>1. d # c /\ req'[d] = req[d] /\ LoggingIn(d)
        BY <3>1 DEF LoggingIn
      <4>2. /\ sess[req[d].token].state = "none" /\ users[req[d].subject].life # "unborn"
            /\ \A e \in Clients \ {d} : req[e].token # req[d].token
        BY <4>1 DEF SessionInv, LoginsOwnTokens
      <4>3. req[d].token \in Tokens \ {req[c].token}
        BY <4>1, <4>2, <1>0, RequestShape DEF LoggingIn
      <4>4. \A e \in Clients \ {d} : req'[e].token # req'[d].token
        BY <4>1, <4>2, <3>1
      <4> QED BY <4>1, <4>2, <4>3, <4>4, <3>0, <3>2
    <3>4. SessionsHaveUsers'
      BY <3>0, <3>2, <1>0 DEF SessionInv, SessionsHaveUsers, LoginsOwnTokens
    <3>5. \A t \in issued' : sess'[t].state # "none"
      BY <3>0, <3>2, <1>0 DEF SessionInv, IssuedIsStored, TypeOK
    <3>6. ASSUME NEW d \in Clients, req'[d].pc = "saved" PROVE sess'[req'[d].token].state # "none"
      <4>1. CASE d = c
        BY <4>1, <3>1, <3>2
      <4>2. CASE d # c
        <5>1. req'[d] = req[d] /\ req[d].token \in Tokens /\ sess[req[d].token].state # "none"
          BY <4>2, <3>1, <3>6, <1>0, RequestShape DEF SessionInv, IssuedIsStored
        <5> QED BY <5>1, <3>2
      <4> QED BY <4>1, <4>2
    <3> QED BY <3>3, <3>4, <3>5, <3>6 DEF SessionInv, IssuedIsStored
  <2> QED BY <2>1, <2>2
<1>3. CASE LoginComplete(c)
  <2>1. UNCHANGED <<users, sess>> /\ issued' = issued \cup {req[c].token} /\ Moves(c)
        /\ sess[req[c].token].state # "none"
    BY <1>3, <1>b DEF LoginComplete, SessionInv, IssuedIsStored
  <2>2. LoginsOwnTokens'
    <3> SUFFICES ASSUME NEW d \in Clients, LoggingIn(d)'
                 PROVE  /\ sess'[req'[d].token].state = "none"
                        /\ users'[req'[d].subject].life # "unborn"
                        /\ \A e \in Clients \ {d} : req'[e].token # req'[d].token
      BY DEF LoginsOwnTokens
    <3>1. d # c /\ req'[d] = req[d] /\ LoggingIn(d)
      BY <2>1 DEF LoggingIn, Moves
    <3>2. req[d].token \in Tokens
      BY <3>1, <1>0, RequestShape DEF LoggingIn
    <3> QED BY <2>1, <3>1, <3>2, NullAssumption DEF SessionInv, LoginsOwnTokens, Moves
  <2>3. SessionsHaveUsers'
    BY <2>1 DEF SessionInv, SessionsHaveUsers
  <2>4. IssuedIsStored'
    BY <2>1 DEF SessionInv, IssuedIsStored, Moves
  <2> QED BY <2>2, <2>3, <2>4 DEF SessionInv
<1>4. ASSUME NEW stored \in BOOLEAN, LoginRollback(c, stored) PROVE SessionInv'
  <2>1. Closing
    BY <1>4, <1>0, SessionShape DEF LoginRollback, Closing, TypeOK
  <2>2. Kept /\ issued' = issued /\ Moves(c)
    BY <1>4, <1>b DEF LoginRollback, Kept
  <2> QED BY <2>1, <2>2, MovesKeep
<1> QED BY <1>1, <1>2, <1>3, <1>4

(* A request arrives: a login with a fresh token, or a request with an     *)
(* issued one.                                                             *)
LEMMA ArrivalStep ==
  ASSUME SessionInv, TypeOK', NEW c \in Clients, Arrival(c)
  PROVE  SessionInv'
<1>0. TypeOK
  BY DEF SessionInv
<1>1. ASSUME NEW u \in Users, NEW t \in Tokens, LoginVerify(c, u, t) PROVE SessionInv'
  <2>1. /\ UNCHANGED <<users, sess, issued>> /\ users[u].life # "unborn"
        /\ sess[t].state = "none" /\ \A d \in Clients : req[d].token # t
    BY <1>1 DEF LoginVerify, Fresh, Active, Live
  <2>2. /\ req'[c].pc = "verified" /\ req'[c].token = t /\ req'[c].subject = u
        /\ \A d \in Clients \ {c} : req'[d] = req[d]
    BY <1>0, <1>1 DEF LoginVerify, TypeOK, Idle
  <2>3. LoginsOwnTokens'
    <3> SUFFICES ASSUME NEW d \in Clients, LoggingIn(d)'
                 PROVE  /\ sess'[req'[d].token].state = "none"
                        /\ users'[req'[d].subject].life # "unborn"
                        /\ \A e \in Clients \ {d} : req'[e].token # req'[d].token
      BY DEF LoginsOwnTokens
    <3>1. CASE d = c
      BY <2>1, <2>2, <3>1
    <3>2. CASE d # c
      BY <2>1, <2>2, <3>2 DEF SessionInv, LoginsOwnTokens, LoggingIn
    <3> QED BY <3>1, <3>2
  <2>4. SessionsHaveUsers' /\ IssuedIsStored'
    BY <2>1, <2>2 DEF SessionInv, SessionsHaveUsers, IssuedIsStored
  <2> QED BY <2>3, <2>4 DEF SessionInv
<1>2. ASSUME NEW t \in Tokens, NEW op, NEW u, NEW role, NEW disabled,
             Authenticate(c, t, op, u, role, disabled)
      PROVE  SessionInv'
  <2>1. UNCHANGED <<users, sess, issued>> /\ sess[t].state # "none"
    BY <1>2 DEF Authenticate, Valid
  <2>2. /\ req'[c].pc = "authed" /\ req'[c].token = t
        /\ \A d \in Clients \ {c} : req'[d] = req[d]
    BY <1>0, <1>2 DEF Authenticate, TypeOK
  <2>3. LoginsOwnTokens'
    <3> SUFFICES ASSUME NEW d \in Clients, LoggingIn(d)'
                 PROVE  /\ sess'[req'[d].token].state = "none"
                        /\ users'[req'[d].subject].life # "unborn"
                        /\ \A e \in Clients \ {d} : req'[e].token # req'[d].token
      BY DEF LoginsOwnTokens
    <3>1. d # c /\ req'[d] = req[d] /\ LoggingIn(d)
      BY <2>2 DEF LoggingIn
    <3> QED BY <2>1, <2>2, <3>1 DEF SessionInv, LoginsOwnTokens
  <2>4. SessionsHaveUsers' /\ IssuedIsStored'
    BY <2>1, <2>2 DEF SessionInv, SessionsHaveUsers, IssuedIsStored
  <2> QED BY <2>3, <2>4 DEF SessionInv
<1> QED BY <1>1, <1>2 DEF Arrival

(* Every step keeps the invariant. *)
LEMMA SessionStep ==
  ASSUME SessionInv, [Next]_vars
  PROVE  SessionInv'
<1>0. TypeOK /\ TypeOK'
  BY TypeStep DEF SessionInv
<1>a. ASSUME Closing, Kept, UNCHANGED <<issued, req>> PROVE SessionInv'
  <2>1. LoginsOwnTokens'
    <3> SUFFICES ASSUME NEW d \in Clients, LoggingIn(d)
                 PROVE  /\ sess'[req[d].token].state = "none"
                        /\ users'[req[d].subject].life # "unborn"
                        /\ \A e \in Clients \ {d} : req[e].token # req[d].token
      BY <1>a DEF LoginsOwnTokens, LoggingIn
    <3>1. req[d].token \in Tokens /\ req[d].subject \in Users
      BY <1>0, RequestShape DEF LoggingIn
    <3> QED BY <1>a, <3>1 DEF SessionInv, LoginsOwnTokens, Closing, Kept
  <2>2. SessionsHaveUsers'
    BY <1>a DEF SessionInv, SessionsHaveUsers, Closing, Kept
  <2>3. \A t \in issued' : sess'[t].state # "none"
    BY <1>a, <1>0 DEF SessionInv, IssuedIsStored, Closing, TypeOK
  <2>4. ASSUME NEW d \in Clients, req[d].pc = "saved" PROVE sess'[req[d].token].state # "none"
    <3>1. req[d].token \in Tokens /\ sess[req[d].token].state # "none"
      BY <2>4, <1>0, RequestShape DEF SessionInv, IssuedIsStored
    <3> QED BY <1>a, <3>1 DEF Closing
  <2> QED BY <1>a, <1>0, <2>1, <2>2, <2>3, <2>4 DEF SessionInv, IssuedIsStored
<1>1. ASSUME NEW u \in Users, CreateInitialAdmin(u) PROVE SessionInv'
  <2>1. Kept
    BY <1>0, <1>1 DEF CreateInitialAdmin, Kept, TypeOK
  <2> QED BY <1>1, <2>1, <1>a DEF CreateInitialAdmin, Closing
<1>2. ASSUME NEW c \in Clients, Arrival(c) PROVE SessionInv'
  BY <1>0, <1>2, ArrivalStep
<1>3. ASSUME NEW c \in Clients, Handler(c) PROVE SessionInv'
  <2>1. CASE ReserveAudit(c)
    BY <2>1, <1>0, LeaveStep DEF ReserveAudit
  <2>2. CASE Answer(c)
    BY <2>2, <1>0, LeaveStep DEF Answer
  <2>3. CASE StorageError(c)
    <3>1. UNCHANGED <<users, sess, issued>> /\ (Done(c) \/ Goto(c, "answer"))
      BY <2>3 DEF StorageError
    <3> QED BY <3>1, <1>0, LeaveStep
  <2> QED BY <1>0, <1>3, <2>1, <2>2, <2>3, LoginStep, ChangeStep, MovesKeep DEF Handler
<1>4. ASSUME NEW t \in Tokens, Expire(t) PROVE SessionInv'
  <2>1. Closing
    BY <1>0, <1>4, SessionShape DEF Expire, Closing, TypeOK
  <2> QED BY <1>4, <2>1, <1>a DEF Expire, Kept
<1>5. CASE UNCHANGED vars
  BY <1>5, <1>a DEF vars, Closing, Kept
<1> QED BY <1>1, <1>2, <1>3, <1>4, <1>5 DEF Next

(* One step never makes a stored session valid that was not. *)
LEMMA NoRevival ==
  ASSUME SessionInv, [Next]_vars, NEW t \in Tokens, sess[t].state # "none", ~Valid(t)
  PROVE  ~Valid(t)'
<1>0. TypeOK /\ sess[t].user \in Users /\ users[sess[t].user].life # "unborn"
  BY DEF SessionInv, SessionsHaveUsers
<1>a. ASSUME sess'[t] = sess[t] \/ sess'[t].state # "open",
             \A u \in Users : users[u].life # "unborn" /\ Active(u)' => Active(u)
      PROVE  ~Valid(t)'
  BY <1>0, <1>a DEF Valid
<1>b. ASSUME users' = users, sess'[t] = sess[t] \/ sess'[t].state # "open" PROVE ~Valid(t)'
  BY <1>0, <1>b DEF Valid, Active, Live
<1>c. ASSUME Closing PROVE sess'[t] = sess[t] \/ sess'[t].state # "open"
  BY <1>c DEF Closing
<1>1. ASSUME NEW u \in Users, CreateInitialAdmin(u) PROVE ~Valid(t)'
  <2>1. \A v \in Users : users[v].life # "unborn" => users'[v] = users[v]
    BY <1>0, <1>1 DEF CreateInitialAdmin, TypeOK
  <2> QED BY <1>1, <2>1, <1>a DEF CreateInitialAdmin, Active, Live
<1>2. ASSUME NEW c \in Clients, Arrival(c) PROVE ~Valid(t)'
  <2>1. users' = users /\ sess' = sess
    BY <1>2 DEF Arrival, LoginVerify, Authenticate
  <2> QED BY <2>1, <1>b
<1>3. ASSUME NEW c \in Clients, Handler(c) PROVE ~Valid(t)'
  <2>0. TypeOK'
    BY <1>0, TypeStep
  <2>1. CASE LoginAppendAudit(c) \/ LoginComplete(c) \/ ReserveAudit(c) \/ Answer(c)
             \/ StorageError(c) \/ WrongPassword(c) \/ LockUserAdministration(c)
             \/ CheckLastAdmin(c)
    <3>1. users' = users /\ sess' = sess
      BY <2>1 DEF LoginAppendAudit, LoginComplete, ReserveAudit, Answer, StorageError,
                  WrongPassword, LockUserAdministration, CheckLastAdmin
    <3> QED BY <3>1, <1>b
  <2>2. CASE LoginSaveSession(c)
    <3>1. LoggingIn(c) /\ users' = users
      BY <2>2 DEF LoginSaveSession, LoggingIn
    <3>2. sess[req[c].token].state = "none"
      BY <3>1 DEF SessionInv, LoginsOwnTokens
    <3>3. sess'[t] = sess[t]
      BY <2>2, <3>2, <1>0 DEF LoginSaveSession, TypeOK
    <3> QED BY <3>1, <3>3, <1>b
  <2>3. ASSUME NEW stored \in BOOLEAN, LoginRollback(c, stored) PROVE ~Valid(t)'
    <3>1. sess'[t] = sess[t] \/ sess'[t].state # "open"
      BY <2>3, <1>0, SessionShape DEF LoginRollback, TypeOK
    <3> QED BY <2>3, <3>1, <1>b DEF LoginRollback
  <2>4. CASE CreateUser(c)
    <3>1. \A v \in Users : users[v].life # "unborn" => users'[v] = users[v]
      BY <1>0, <2>4 DEF CreateUser, TypeOK
    <3> QED BY <2>4, <3>1, <1>a DEF CreateUser, Active, Live
  <2>5. CASE ResetUserPassword(c) \/ ChangePassword(c)
    <3>1. \/ users' = users
          \/ users' = [users EXCEPT ![req[c].subject].must = TRUE]
          \/ users' = [users EXCEPT ![req[c].subject].must = FALSE]
      <4>1. CASE ResetUserPassword(c)
        BY <4>1 DEF ResetUserPassword
      <4>2. CASE ChangePassword(c)
        BY <4>2 DEF ChangePassword
      <4> QED BY <2>5, <4>1, <4>2
    <3>2. \A u \in Users : users'[u].life = users[u].life /\ users'[u].disabled = users[u].disabled
      BY <1>0, <3>1 DEF TypeOK, User
    <3>3. Closing
      BY <2>0, <2>5, ChangeStep
    <3> QED BY <3>2, <3>3, <1>a, <1>c DEF Active, Live
  <2>6. CASE Logout(c)
    BY <2>0, <2>6, ChangeStep, <1>b, <1>c DEF Logout
  <2>7. CASE UpdateUser(c)
    <3>1. req[c].subject \in Users
      BY <2>7, <1>0, RequestShape DEF UpdateUser
    <3>2. CASE sess[t].user = req[c].subject
      <4>1. sess'[t] = Revoked(t)
        BY <2>7, <3>2, NullAssumption DEF UpdateUser, RevokeAll
      <4> QED BY <4>1, <1>0, SessionShape DEF Valid
    <3>3. CASE sess[t].user # req[c].subject
      <4>1. users'[sess[t].user] = users[sess[t].user] /\ sess'[t] = sess[t]
        BY <2>7, <3>1, <3>3, <1>0 DEF UpdateUser, RevokeAll, TypeOK
      <4> QED BY <4>1 DEF Valid, Active, Live
    <3> QED BY <3>2, <3>3
  <2>8. CASE DeleteUser(c)
    <3>1. req[c].subject \in Users
      BY <2>8, <1>0, RequestShape DEF DeleteUser
    <3>2. \A u \in Users : Active(u)' => Active(u)
      BY <2>8, <3>1, <1>0 DEF DeleteUser, TypeOK, User, Active, Live
    <3>3. Closing
      BY <2>0, <2>8, ChangeStep
    <3> QED BY <3>2, <3>3, <1>a, <1>c
  <2> QED BY <1>3, <2>1, <2>2, <2>3, <2>4, <2>5, <2>6, <2>7, <2>8 DEF Handler
<1>4. ASSUME NEW s \in Tokens, Expire(s) PROVE ~Valid(t)'
  <2>1. sess'[t] = sess[t] \/ sess'[t].state # "open"
    BY <1>0, <1>4, SessionShape DEF Expire, TypeOK
  <2> QED BY <1>4, <2>1, <1>b DEF Expire
<1>5. CASE UNCHANGED vars
  BY <1>5, <1>b DEF vars
<1> QED BY <1>1, <1>2, <1>3, <1>4, <1>5 DEF Next

(* A session that stopped being valid (revoked, expired, or its account    *)
(* disabled or deleted) is never valid again: not when the account is      *)
(* enabled again, and not when a login stored it only after the account    *)
(* was disabled.                                                           *)
THEOREM SessionsStayClosed == Spec => SessionsNeverRevive
<1>1. Init => SessionInv
  BY InitAdmin DEF Init, SessionInv, AdminInv, LoginsOwnTokens, LoggingIn, SessionsHaveUsers,
                   IssuedIsStored, NoSession, Idle
<1>2. SessionInv /\ [Next]_vars => SessionInv'
  BY SessionStep
<1>3. SessionInv /\ [Next]_vars
      => [\A t \in Tokens : sess[t].state # "none" /\ ~Valid(t) => ~Valid(t)']_vars
  BY NoRevival
<1> QED BY <1>1, <1>2, <1>3, PTL DEF Spec, SessionsNeverRevive
=============================================================================
