SPECIFICATION FairSpec
CONSTANTS
  c1 = c1
  c2 = c2
  u1 = u1
  None = None
  Clients = {c1}
  Users = {u1}
  Tunnels = {t1, t2}
  HttpAddr = {}
  TcpAddr = {}
  UdpAddr = {q}
  UserOf <- OneUser
  PlanMax <- NoLimit
  TokenMax <- NoLimit
PROPERTIES UdpPortsReleased
CHECK_DEADLOCK FALSE
