SPECIFICATION FairSpec
CONSTANTS
  a = a
  NumWorkers = 2
  Capacity = 1
  Labels = {a}
  Disk = {"written", "raises"}
  Targets = {a}
  MaxResults = 2
  MaxToggles = 2
INVARIANTS
  MessagesAreSaves
PROPERTIES
  DispatchReturns
  AlertsAccounted
CHECK_DEADLOCK FALSE
