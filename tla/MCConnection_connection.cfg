CONSTANTS
  Limiters = {"hcm", "h2"}
  Clients = {"x1"}
  HostOf <- ClientHosts
  Scope = "ip"
  RequestsPerSecond = 3
  Burst = 2
  TicksPerSecond = 2
  ClockBound = 1
  Clusters = {"A", "B"}
  NoCluster = "none"
  RetryPolicy <- Policies
  Chars = {"/", "a", "b", "*"}
  Methods = {"GET", "POST", "OPTIONS"}
  Targets = {"A", "B", "none"}
  Conns = {"c1", "c2"}
  Handshakes <- TwoHandshakes
  Chains <- TwoChains
  Routes <- OverlappingRules
  RequestKinds <- TwoKinds
  UpstreamStatuses = {304, 999}
  MaxRequests <- OneAndTwo
SPECIFICATION Spec
INVARIANTS
  TypeOK
  BucketExact
  WindowBound
  OneAnswer
  
  FailureReported
  CountersExact
  EveryRequestCharged
CHECK_DEADLOCK FALSE
