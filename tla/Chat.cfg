SPECIFICATION FairSpec
CONSTANTS
  free = free
  paid = paid
  live = live
  Request = {r1}
  Route = {free, paid, live}
  Provider <- MCProvider
  TierMin <- MCTierMin
  Tier = {"free", "pro", "gold"}
  NoRoute = NoRoute
  MayStall = {"client", "provider", "hub"}
INVARIANTS
  EventTellsTheTruth
  AnswersAreAccounted
  StreamNeverSpoiled
PROPERTIES
  ImplementsMetering
  EveryRequestEnds
  EveryCallIsReported
CHECK_DEADLOCK FALSE
