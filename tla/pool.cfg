SPECIFICATION FairSpec
CONSTANTS
  p1 = p1
  p2 = p2
  c1 = c1
  c2 = c2
  Producers = {p1, p2}
  Closers = {c1, c2}
  NumWorkers = 2
  Capacity = 1
  MaxTasks = 2
INVARIANTS
  TypeOK
  Fifo
  RunsOnce
PROPERTIES
  NoLateStart
  AcceptedRuns
  WorkersExit
  ShutdownReturns
CHECK_DEADLOCK FALSE
