SPECIFICATION Spec
CONSTANTS
  c1 = c1
  c2 = c2
  u1 = u1
  None = None
  Clients = {c1, c2}
  Users = {u1}
  Tunnels = {t1, t2, t3}
  HttpAddr = {web, api, www}
  TcpAddr = {}
  UdpAddr = {}
  UserOf <- OneUser
  PlanMax <- LimitOne
  TokenMax <- NoLimit
SYMMETRY Symmetry
INVARIANTS RoutesAccounted BuffersAccounted LiveTunnelsRouted PlanLimit
CHECK_DEADLOCK FALSE
