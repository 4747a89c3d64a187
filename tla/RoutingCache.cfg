SPECIFICATION FairSpec
CONSTANTS
  m1 = m1
  m2 = m2
  Handler = {h1}
  Refresher = refresher
  Model = {m1, m2}
  MaxVersion = 2
  HubEntries <- MCShrinking
  TTL = 1
  FetchBound = 1
  Horizon = 3
INVARIANTS
  TypeOK
  EmptyCacheHasError
PROPERTIES
  StalenessBounded
  RegressionNeedsOverlap
  ImplementsRoutingRegister
  FetchesEnd
  CacheConverges
