SPECIFICATION FairSpec
CONSTANTS
  k1 = k1
  k2 = k2
  Key = {k1, k2}
  MaxVersion = 3
  Published <- MCRotations
  Validator = {v1}
  TTL = 3
  FetchBound = 2
  Horizon = 8
INVARIANTS
  TypeOK
PROPERTIES
  KeysNeverLost
  TokensFollowHub
  ProxyStarts
  KeysConverge
