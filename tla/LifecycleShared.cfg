\* Two clients on one proposal, one crash.
SPECIFICATION Spec
CONSTANTS
  calm = calm
  wild = wild
  Views = {calm, wild}
  MidPrice <- MCMidPrice
  Allowed <- MCAllowed
  MaxAllowedSize = 2000
  TTL = 1
  Clients = {cli, telegram}
  Proposals = {p1}
  RecommendedSizes = {2000}
  TypedAmounts = {4, 20010}
  TypedPrices = {51000}
  MaxTime = 2
  MaxOps = 4
  MaxCrashes = 1
SYMMETRY Symmetry
INVARIANTS TypeOK ApprovedIsRevalidated RejectedDraftIsFinal TrailExplainsRow
