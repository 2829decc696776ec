SPECIFICATION FairSpec
CONSTANTS
  MaxFailures = 4
  HWM = 1
  ResultHWM = 1
  MayFail <- AnyStart
  MaxFrames = 2
INVARIANTS
  TypeOK
  ResultsInOrder
  FatalTruthful
  StopReleases
PROPERTIES
  QuietAfterStop
  FatalReported
  StopReturns
CHECK_DEADLOCK FALSE
