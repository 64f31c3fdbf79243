SPECIFICATION Spec
CONSTANTS
    Workers = {w1}
    Booted = {w1}
    Targets = {t1}
    MaxJobs = 2
    MaxRetries = 1
    MaxFaults = 1
    Faults = {"timeout"}
    Requests <- CheckOnly
    Unchecked <- NoRequests
    NoJob = NoJob
INVARIANT OnePlaybookPerTarget
CHECK_DEADLOCK FALSE
