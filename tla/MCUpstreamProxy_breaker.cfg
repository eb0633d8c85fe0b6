SPECIFICATION Spec
CONSTANTS
  r1 = r1
  r2 = r2
  r3 = r3
  e1 = e1
  e2 = e2
  h1 = h1
  Requests = {r1, r2, r3}
  Endpoints = {e1, e2}
  EndpointLists <- ChangingEndpoints
  LbPolicies = {"round_robin", "random", "least_requests"}
  CbMaxReqs = 2
  EpMaxReqs = 1
  Consecutive = 1
  EjectFor = 1
  HealthyThreshold = 1
  UnhealthyThreshold = 1
  HealthChecked = {}
  TimeBound = 1
  Proxies = {h1}
  ProxyOf <- OneProxy
  MaxPending = 1
  MaxRetries = 1
  NonIdempotent = {}
  Timed = {}
  Cancellable = {}
  BadAddrs = {e2}
  NoEndpoint = NoEndpoint
SYMMETRY RequestSymmetry
INVARIANTS
  TypeOK
  PickInBounds
  SlotAccounting
  ClusterCap
  PendingAccounting
  EndpointAccounting
PROPERTIES
  DeniedOnlyAtLimit
  ImplementsAdmission
