SPECIFICATION Spec
CONSTANTS
  c1 = c1
  c2 = c2
  u1 = u1
  None = None
  Clients = {c1, c2}
  Users = {u1}
  Tunnels = {t1, t2}
  HttpAddr = {web}
  TcpAddr = {p}
  UdpAddr = {}
  UserOf <- FirstUser
  PlanMax <- NoLimit
  TokenMax <- LimitFirst
SYMMETRY TunnelSymmetry
INVARIANTS TypeOK PortsAccounted TokenLimit OneLateTunnel
PROPERTY LeaseSpec
CHECK_DEADLOCK FALSE
