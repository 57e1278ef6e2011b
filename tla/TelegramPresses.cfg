\* A proposal and a diagnostics check, two presses, one crash or failing action.
SPECIFICATION Spec
CONSTANTS
  Proposals = {p1}
  Alerts = {}
  Labels = {gamma}
  MaxPresses = 2
  MaxFailures = 1
  MaxUndone = 1
INVARIANTS DecidesOnce OneRequestPerSubject RecordsExplainRequests
