SPECIFICATION WindowsSpec
CONSTANTS
  MaxWorkflows = 2
  WorkflowKinds <- WindowsWork
  MaxRecoveries = 0
  MaxReissues = 0
  MaxMishaps = 0
  MaxResults = 1
CHECK_DEADLOCK FALSE
INVARIANT
  ReconciliationUnlocks
