SPECIFICATION FairSpec
CONSTANTS
  ui = ui
  closer = closer
  p1 = p1
  p2 = p2
  Callers = {ui, closer}
  PoolThreads = {p1, p2}
  Capacity = 1
  MaxStarts = 2
  MaxFrames = 3
PROPERTIES
  StopReturns
CHECK_DEADLOCK FALSE
