SPECIFICATION FairSpec
CONSTANTS
  Client = {c1}
  Limit <- MCLimit
  MaxRetries = 3
INVARIANTS
  OvershootBounded
  FailClosedAdmitsOnlyGranted
PROPERTIES
  ImplementsAllowance
  NoPermanentLockout
