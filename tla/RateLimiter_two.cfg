SPECIFICATION Spec
CONSTANTS
  Client = {c1, c2}
  Limit <- MCSharedLimit
  MaxRetries = 0
SYMMETRY MCClients
INVARIANTS
  GrantsWithinBudget
  OvershootBounded
PROPERTIES
  RemainingIsNoPromise
