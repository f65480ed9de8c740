CONSTANTS
  Sessions = {s1, s2}
  Main = main
  Apis = {}
  Loops = {l1}
  NConfigs = 1
  MaxAttempts = 0
  Enabled = TRUE
  Refresher = TRUE
  None = None
SPECIFICATION Spec
INVARIANT CloseIsFinal
CHECK_DEADLOCK FALSE
