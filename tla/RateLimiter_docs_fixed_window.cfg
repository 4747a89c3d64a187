SPECIFICATION Spec
CONSTANTS
  Client = {c1, c2}
  Limit <- MCLimit
  MaxRetries = 0
INVARIANTS
  FixedWindowQuota
