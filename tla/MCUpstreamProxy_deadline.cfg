SPECIFICATION FairSpec
CONSTANTS
  r1 = r1
  r2 = r2
  r3 = r3
  e1 = e1
  e2 = e2
  h1 = h1
  Requests = {r1, r2}
  Endpoints = {e1, e2}
  EndpointLists <- UnresolvedEndpoints
  LbPolicies = {"round_robin"}
  CbMaxReqs = 1
  EpMaxReqs = 0
  Consecutive = 1
  EjectFor = 1
  HealthyThreshold = 1
  UnhealthyThreshold = 1
  HealthChecked = {}
  TimeBound = 0
  Proxies = {h1}
  ProxyOf <- OneProxy
  MaxPending = 1
  MaxRetries = 0
  NonIdempotent = {}
  Timed = {r2}
  Cancellable = {}
  BadAddrs = {}
  NoEndpoint = NoEndpoint
PROPERTIES
  ExpiredWaiterLeaves
