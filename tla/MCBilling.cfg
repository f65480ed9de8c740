SPECIFICATION SceneSpec
CONSTANTS
  Users = {ann}
  Admins = {}
  Root = root
  Plans = {basic}
  Free = Free
  None = None
  Hooks = {h1}
  MaxSub = 1
  MaxPay = 3
  Month = 1
  MaxTime = 1
INVARIANTS PaidUp OnePending
PROPERTY OverdueEnds
CHECK_DEADLOCK FALSE
