SPECIFICATION Spec
CONSTANTS
  Threads = {"ui", "drain"}
  Calls <- OneOpener
  w1 = w1
  w2 = w2
  Workers = {w1, w2}
  Devices = {"d1", "d2"}
  MaxOpens = 2
  Failures = {"camera", "component", "save", "load"}
INVARIANTS
  TypeOK
  ClosingHasWorker
  OneTeardown
  IdleHoldsNothing
  NothingLeaks
  OpenMeansRunning
  DetectorLockstep
PROPERTIES
  ImplementsLifecycle
CHECK_DEADLOCK FALSE
