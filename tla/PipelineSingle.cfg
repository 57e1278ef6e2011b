\* One client at a time, two proposals, one crash.
SPECIFICATION Spec
CONSTANTS
  Clients = {cli}
  Proposals = {p1, p2}
  Intents = {i1, i2}
  Terms <- MCFilling
  Side <- MCNo
  Expires <- MCExpires
  Quotes <- MCQuotes
  SemiAuto = FALSE
  MaxTime = 1
  MaxOps = 4
  MaxLate = 0
  MaxCrashes = 1
PROPERTY ImplementsOrderContract
