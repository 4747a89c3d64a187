SPECIFICATION FairSpec
CONSTANTS
  MaxLines = 4
  Length <- MCLength
INVARIANTS
  GotPrefix
  EndTells
  BilledFairly
PROPERTIES
  FragmentIsLast
  RelayReturns
CHECK_DEADLOCK FALSE
