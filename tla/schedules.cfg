SPECIFICATION MCSpec
CONSTANTS
  s1 = s1
  t1 = t1
  t2 = t2
  p1 = p1
  NoPolicy = NoPolicy
  NoTarget = NoTarget
  Ids = {s1}
  Targets = {t1, t2}
  Lxc = {t1}
  Policies = {p1}
  c1 = c1
  c2 = c2
  Clients = {c1, c2}
  Requests <- AllRequests
  Operations <- Handlers
  Interval = 1
  MaxTime = 2
  MaxFaults = 2
CHECK_DEADLOCK FALSE
INVARIANTS
  ScopesRegistered
  SlotOnce
PROPERTIES
  DueScheduleRuns
  OneCatchUp
