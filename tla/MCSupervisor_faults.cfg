SPECIFICATION FairSpec
CONSTANTS
  l1 = l1
  l2 = l2
  c1 = c1
  c2 = c2
  d1 = d1
  Listeners = {l1, l2}
  ReloadCalls = {c1}
  DrainCalls = {d1}
  SerialReloads = TRUE
  Faulty = {l2}
  MaxConns = 1
INVARIANTS
  TypeOK
  DoneMeansStopped
  OrphanOnlyAfterError
PROPERTIES
  ReloadReturns
  ReloadServes
