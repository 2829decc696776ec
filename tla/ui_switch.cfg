SPECIFICATION Spec
CONSTANTS
  Closers <- TwoClosers
  Configured = {TRUE}
  Files = {"absent"}
  Echoes = 1
  MaxClicks = 1
INVARIANTS
  PanelInStep
CHECK_DEADLOCK FALSE
