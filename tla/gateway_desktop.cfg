SPECIFICATION FairSpec
CONSTANTS
  Threads = {"ui", "drain"}
  Calls <- Desktop
  w1 = w1
  w2 = w2
  Workers = {w1, w2}
  Devices = {"d1"}
  MaxOpens = 2
  Failures = {"camera", "component", "save", "load"}
PROPERTIES
  ImplementsFairLifecycle
  OpenCompletes
  WaitersReturn
CHECK_DEADLOCK FALSE
