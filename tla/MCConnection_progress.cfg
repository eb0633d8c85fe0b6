CONSTANTS
  Limiters = {"hcm", "h2"}
  Clients = {"x1"}
  HostOf <- ClientHosts
  Scope = "ip"
  RequestsPerSecond = 3
  Burst = 1
  TicksPerSecond = 2
  ClockBound = 0
  Clusters = {"A", "B"}
  NoCluster = "none"
  RetryPolicy <- Policies
  Chars = {"/", "a", "b", "*"}
  Methods = {"GET", "POST", "OPTIONS"}
  Targets = {"A", "B", "none"}
  Conns = {"c1", "c2"}
  Handshakes <- TwoHandshakes
  Chains <- TwoChains
  Routes <- OverlappingRules
  RequestKinds <- TwoKinds
  UpstreamStatuses = {200}
  MaxRequests <- OneEach
SPECIFICATION Spec
PROPERTIES
  RequestsAnswered
  ShutdownReturns
CHECK_DEADLOCK FALSE
