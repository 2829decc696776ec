SPECIFICATION Spec
CONSTANTS
  MaxFailures = 4
  HWM = 1
  ResultHWM = 1
  MayFail <- AnyStart
  MaxFrames = 2
INVARIANTS
  PictureIsSource
CHECK_DEADLOCK FALSE
