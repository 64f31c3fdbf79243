SPECIFICATION MCSpec
CONSTANTS
  Requests = {h1, h2, h3}
  Kinds = {"change", "delete_target", "backup"}
  Droppable = {"delete_target"}
  Scheduler = Scheduler
  Onboarding = Onboarding
  Nobody = Nobody
  MaxChanges = 2
  MaxBackups = 2
  MaxDrops = 1
  Backups = {b1, b2}
  StoredSecrets = {x1}
  Retention = 1
  MaxDays = 3
  MaxHitches = 1
  Holders = {h1, h2, h3}
  Entries = {e1}
  Payloads = {p1, p2}
  Absent = Absent
  MaxOps = 4
  MaxMishaps = 1
  Secrets = {s1, s2}
  Values = {v1, v2}
  NoValue = NoValue
  Calls = {a1, a2}
  Containers = {c1}
  NoOne = NoOne
  MaxCalls = 3
  MaxFailures = 1
  Gaps = {5, 8}
  MaxSampleGap = 7
  WarningFor = 10
  CriticalFor = 5
  MaxSeries = 5
  Handlers = {n1, n2}
  Resources = {t1, t2}
  NoResource = NoResource
  MaxHandled = 4
  MaxTroubles = 2
  Operators = {h1, h2, h3}
  Policies = {"weekly"}
  Rules <- ThreeRules
  PackageLists <- OneOrAll
  NoOperator = NoOperator
  Day = 3
  NoRule = NoRule
  MaxUpdateJobs = 4
  MaxAsked = 2
  MaxMinutes = 1
  MaxUpsets = 1
SYMMETRY Symmetry
CHECK_DEADLOCK FALSE
INVARIANTS
  ArchivesAgree
  ArchivesSafe
  SecretChangesThrough
  AlertsAreSustained
  StandardPolicyRepaired
  AppliesWerePermitted
  OncePerPlan
PROPERTIES
  ImplementsRegister
