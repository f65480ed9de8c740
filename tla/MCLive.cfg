SPECIFICATION FairSpec
CONSTANTS
  c1 = c1
  c2 = c2
  u1 = u1
  None = None
  Clients = {c1}
  Users = {u1}
  Tunnels = {t1, t2}
  HttpAddr = {web}
  TcpAddr = {p}
  UdpAddr = {q}
  UserOf <- OneUser
  PlanMax <- NoLimit
  TokenMax <- NoLimit
CHECK_DEADLOCK FALSE
PROPERTIES DeadPeersRemoved AddressesFreed
