\* A proposal and an alert, one press, one crash or failing action, fairness.
SPECIFICATION FairSpec
CONSTANTS
  Proposals = {p1}
  Alerts = {a1}
  Labels = {}
  MaxPresses = 1
  MaxFailures = 1
  MaxUndone = 1
INVARIANTS ActionedIsDecided AnnouncedOnce ConfirmedIsAnswered
PROPERTIES UpdatesAreHandled PendingIsQueued
