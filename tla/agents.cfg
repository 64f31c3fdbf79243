SPECIFICATION MCSpec
CONSTANTS
  MaxWorkflows = 2
  WorkflowKinds <- WindowsWork
  MaxRecoveries = 1
  MaxReissues = 1
  MaxMishaps = 1
  MaxResults = 1
  Enrollments = {n1}
  Pages = {g1}
  Tick = tick
  MaxLosses = 1
  MaxRestarts = 1
  MaxRetried = 1
  MaxResets = 1
CHECK_DEADLOCK FALSE
INVARIANTS
  TableTellsHost
  NobodyHoldsForGood
  PollsKeepOrder
PROPERTIES
  ClaimedJobsFinish
  OnboardingCompletes
