SPECIFICATION Spec
CONSTANTS
  free = free
  paid = paid
  live = live
  Request = {r1}
  Route = {free, paid, live}
  Provider <- MCProvider
  TierMin <- MCTierMin
  Tier = {"free", "pro", "gold"}
  NoRoute = NoRoute
  MayStall = {}
INVARIANTS
  UpstreamTimeoutIs504
CHECK_DEADLOCK FALSE
