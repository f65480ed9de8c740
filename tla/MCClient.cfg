CONSTANTS
  Sessions = {s1, s2}
  Main = main
  Apis = {api}
  l1 = l1
  l2 = l2
  Loops = {l1, l2}
  NConfigs = 1
  MaxAttempts = 1
  Enabled = TRUE
  Refresher = TRUE
  None = None
SPECIFICATION SceneSpec
INVARIANTS ReconnectingIsBacked CloseHolds OneSessionPerLoop
PROPERTIES  LoopRecovers
CHECK_DEADLOCK FALSE
