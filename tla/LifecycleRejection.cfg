\* Two clients on one proposal, no crash: a rejection and an approval race.
SPECIFICATION Spec
CONSTANTS
  calm = calm
  wild = wild
  Views = {calm, wild}
  MidPrice <- MCMidPrice
  Allowed <- MCAllowed
  MaxAllowedSize = 2000
  TTL = 1
  Clients = {cli, telegram}
  Proposals = {p1}
  RecommendedSizes = {2000}
  TypedAmounts = {4, 20010}
  TypedPrices = {51000}
  MaxTime = 2
  MaxOps = 4
  MaxCrashes = 0
PROPERTY RejectionHolds
