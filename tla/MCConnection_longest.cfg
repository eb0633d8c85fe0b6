CONSTANTS
  Limiters = {"hcm", "h2"}
  Clients = {"x1"}
  HostOf <- ClientHosts
  Scope = "global"
  RequestsPerSecond = 3
  Burst = 2
  TicksPerSecond = 2
  ClockBound = 1
  Clusters = {"A", "B"}
  NoCluster = "none"
  RetryPolicy <- Policies
  Chars = {"/", "a", "b", "*"}
  Methods = {"GET", "POST", "OPTIONS"}
  Targets = {"A", "B", "none"}
  Conns = {"c1"}
  Handshakes <- PlainOnly
  Chains <- TwoChains
  Routes <- OverlappingRules
  RequestKinds <- GetOnly
  UpstreamStatuses = {200}
  MaxRequests <- Two
SPECIFICATION Spec
INVARIANT LongestPrefixRouted
CHECK_DEADLOCK FALSE
