\* One client at a time, two proposals, one crash.
SPECIFICATION Spec
CONSTANTS
  calm = calm
  wild = wild
  Views = {calm, wild}
  MidPrice <- MCMidPrice
  Allowed <- MCAllowed
  MaxAllowedSize = 2000
  TTL = 1
  Clients = {cli}
  Proposals = {p1}
  RecommendedSizes = {2000}
  TypedAmounts = {10000}
  TypedPrices = {51000}
  MaxTime = 2
  MaxOps = 4
  MaxCrashes = 1
INVARIANT EveryTransitionRecorded
