SPECIFICATION MCSpec
CONSTANTS
  Clients = {r1, r2}
  Kinds = {"discover", "apply", "stop", "restart"}
  MaxImages = 2
  MaxContainers = 2
  MaxRetries = 1
  MaxEvents = 3
  MaxRequests = 3
  Seekers = {r1, r2}
  Workloads = {w1, w2}
  NoSeeker = NoSeeker
  MaxRuns = 2
  MaxMistakes = 1
  Beats = {r1, r2}
  SampleEvery = 3
  HeartbeatEvery = 3
  WindowSeconds = 6
  MaxSamples = 3
  Overlap = 1
  FutureSkew = 1
  Skew = 50
  MaxMissed = 1
  MaxInventories = 2
  Horizon = 7
SYMMETRY Symmetry
CHECK_DEADLOCK FALSE
INVARIANTS
  EventsAgree
  SuccessReplaced
  TimelineFaithful
  ForgottenIsStored
PROPERTIES
  DiscoveryFaithful
