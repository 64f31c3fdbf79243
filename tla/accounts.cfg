SPECIFICATION Spec
CONSTANTS
  u1 = u1
  u2 = u2
  k1 = k1
  k2 = k2
  c1 = c1
  c2 = c2
  NoUser = NoUser
  NoToken = NoToken
  NoClient = NoClient
  Users = {u1, u2}
  Tokens = {k1, k2}
  Clients = {c1, c2}
  Operations = {"create", "update", "password", "reset", "delete", "logout"}
  MaxFaults = 1
SYMMETRY Symmetry
CHECK_DEADLOCK FALSE
INVARIANTS
  AdminRemains
  IssuedIsLogged
  LockReleased
PROPERTIES
  SessionsNeverRevive
