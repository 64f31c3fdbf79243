SPECIFICATION MCSpec
CONSTANTS
    Workers = {w1}
    Booted = {w1}
    Targets = {t1}
    MaxJobs = 3
    MaxRetries = 1
    MaxFaults = 2
    Faults = {"crash", "db"}
    Requests <- CoreRequests
    Unchecked <- DeployOnly
    NoJob = NoJob
    Viewers = {v1, v2}
    MaxRetried = 1
    MaxViews = 2
    MaxLosses = 1
    p1 = p1
    p2 = p2
    p3 = p3
    ScanIds = {s1, s2}
    Listings <- MCListings
    SecurityPackages = {p1}
    Unreadable = {p3}
    DetailFields = 8
    MaxScanRetries = 1
    MaxEvents = 2
    PlanRequests <- MCRequests
    PlanChanges <- MCChanges
    HeartbeatInterval = 2
    ProbeInterval = 15
    ProbeTimeout = 3
    WindowSeconds = 10
    MaxMisses = 3
    MaxReleases = 3
    TargetKinds = {"linux", "windows"}
CHECK_DEADLOCK FALSE
INVARIANTS
  TypeOK
  NoBlindRetry
  OneUnresolved
  EventsTellTheJob
  ScansTrue
  PlansJudgedByContent
  WorkerToldTruly
PROPERTIES
  RowLifecycle
