CONSTANTS
  Users = {ann}
  Admins = {}
  Plans = {basic}
  Free = Free
  None = None
  Hooks = {h1}
  MaxSub = 1
  MaxPay = 1
  Month = 1
  MaxTime = 2
SPECIFICATION FairSpec
PROPERTY CancelledEnds
