\* Two clients on one proposal and two intents, one late save, one crash.
SPECIFICATION Spec
CONSTANTS
  Clients = {demo, cli}
  Proposals = {p1}
  Intents = {i1, i2}
  Terms <- MCTerms
  Side <- MCYes
  Expires <- MCExpires
  Quotes <- MCQuotes
  SemiAuto = TRUE
  MaxTime = 1
  MaxOps = 3
  MaxLate = 1
  MaxCrashes = 1
SYMMETRY Symmetry
INVARIANTS TypeOK IntentCarriesApprovedTerms ExecutionsAddUp StatusIsExplained
