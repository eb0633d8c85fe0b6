SPECIFICATION Spec
CONSTANTS
  l1 = l1
  l2 = l2
  c1 = c1
  c2 = c2
  d1 = d1
  Listeners = {l1}
  ReloadCalls = {c1, c2}
  DrainCalls = {}
  SerialReloads = FALSE
  Faulty = {}
  MaxConns = 1
INVARIANTS
  OwnsLive
