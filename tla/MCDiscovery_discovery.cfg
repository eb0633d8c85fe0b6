SPECIFICATION FairSpec
CONSTANTS
  s1 = s1
  s2 = s2
  a1 = a1
  a2 = a2
  Seeds = {s1, s2}
  Addrs = {a1, a2}
  StaticSeeds = {a1}
  Answers <- OverlappingAnswers
  Checkers = {1, 2, 3}
  MaxChanges = 1
  NoChecker = NoChecker
INVARIANTS
  TypeOK
  StaticSeedsKept
  CheckersOwned
PROPERTIES
  CancelledCheckersStop
  ShutdownStops
  DiscoveryConverges
