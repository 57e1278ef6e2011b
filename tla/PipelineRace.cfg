\* Two clients create an intent for the same approved proposal.
SPECIFICATION Spec
CONSTANTS
  Clients = {demo, cli}
  Proposals = {p1}
  Intents = {i1, i2}
  Terms <- MCTerms
  Side <- MCYes
  Expires <- MCExpires
  Quotes <- MCQuotes
  SemiAuto = TRUE
  MaxTime = 1
  MaxOps = 4
  MaxLate = 0
  MaxCrashes = 0
INVARIANT OneActiveIntent
