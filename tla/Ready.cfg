SPECIFICATION FairSpec
CONSTANTS
  m1 = m1
  Handler = {h1}
  Refresher = refresher
  Model = {m1}
  MaxVersion = 1
  HubEntries <- MCRepaired
  TTL = 1
  FetchBound = 1
  Horizon = 3
  PlatformEdit = {0}
INVARIANTS
  ReportIsConsistent
PROPERTIES
  ProbesEnd
  ProbesConverge
