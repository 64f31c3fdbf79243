SPECIFICATION MCSpec
CONSTANTS
  NoPlan = NoPlan
  NoExec = NoExec
  Plans = {p1}
  Execs = {e1, e2}
  Keys = {k1, k2}
  Clients = {c1, c2}
  Operations = {"abort", "reconcile"}
  MaxRetries = 1
  MaxFaults = 1
  Sessions = {i1, i2}
  Admins = {u1}
  Targets = {t1, t2}
  Nobody = Nobody
  MaxSessionsPerUser = 2
  MaxSessionsPerTarget = 1
  MaxSessionDuration = 2
  IdleTimeout = 1
  MaxLost = 1
CHECK_DEADLOCK FALSE
INVARIANTS
  ExecutionsTrue
  ShellsGuarded
PROPERTIES
  EveryoneAnswered
