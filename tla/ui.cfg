SPECIFICATION FairSpec
CONSTANTS
  Closers <- TwoClosers
  Configured = {TRUE, FALSE}
  Files = {"absent", "broken"}
  Echoes = 1
  MaxClicks = 1
INVARIANTS
  MenuInStep
PROPERTIES
  OverlayEnds
CHECK_DEADLOCK FALSE
