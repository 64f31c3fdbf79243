SPECIFICATION MCSpec
CONSTANTS
    w1 = w1
    w2 = w2
    t1 = t1
    t2 = t2
    Workers = {w1, w2}
    Booted = {w1, w2}
    Targets = {t1, t2}
    MaxJobs = 3
    MaxRetries = 1
    MaxFaults = 2
    Faults = {"crash", "timeout"}
    Requests <- ApplyAndCheck
    Unchecked <- NoRequests
    NoJob = NoJob
CHECK_DEADLOCK FALSE
INVARIANTS
  WorkersSeparate
PROPERTIES
  JobsMoveOn
