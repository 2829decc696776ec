SPECIFICATION Spec
CONSTANTS
  t1 = t1
  t2 = t2
  a = a
  b = b
  Threads = {t1, t2}
  Labels = {a, b}
  Interval = 2
  SaveOnNewClass = TRUE
  Disk = {"written"}
  MaxTime = 6
  MaxSaves = 3
PROPERTIES
  TriggerSpacing
CHECK_DEADLOCK FALSE
