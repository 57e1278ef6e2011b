\* One client; the TTL runs out after the intent was created.
SPECIFICATION Spec
CONSTANTS
  Clients = {cli}
  Proposals = {p1}
  Intents = {i1, i2}
  Terms <- MCTerms
  Side <- MCYes
  Expires <- MCExpires
  Quotes <- MCQuotes
  SemiAuto = TRUE
  MaxTime = 1
  MaxOps = 4
  MaxLate = 0
  MaxCrashes = 0
PROPERTY NoStaleExecution
