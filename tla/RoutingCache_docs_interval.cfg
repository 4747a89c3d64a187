SPECIFICATION Spec
CONSTANTS
  m1 = m1
  m2 = m2
  Handler = {h1}
  Refresher = refresher
  Model = {m1, m2}
  MaxVersion = 2
  HubEntries <- MCShrinking
  TTL = 2
  FetchBound = 2
  Horizon = 5
PROPERTIES
  PropagatesWithinOneInterval
