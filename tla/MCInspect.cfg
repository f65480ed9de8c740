CONSTANTS
  Tunnels = {web}
  Exchanges = {e1, e2, e3}
  Streams = {s1}
  ann = ann
  Users = {ann}
  OwnerOf <- AnnsTunnels
  None = None
  Cap = 2
  ChanCap = 1
SPECIFICATION FairSpec
INVARIANTS TypeOK SubscribersOpen OwnerUnlessRemoved
PROPERTIES LogSpec StreamsEnd
CHECK_DEADLOCK FALSE
