SPECIFICATION WaitSpec
CONSTANTS
  Primary = s0
  DataSessions = {}
  Visitors = {v1, v2}
  PoolSize = 1
  Workers = {k1}
  MaxStreams = 3
  Requesters = {v2}
  Conns = {n1, n2}
  Guests = {g1, g2}
  Polls = {q1, q2}
  Approvers = {a1, a2}
  MaxFlows = 2
  Waiters = {w1, w2}
  None = None
CHECK_DEADLOCK FALSE
INVARIANT DrainedFirst
PROPERTIES VisitorsServed  StopReturns AuthorizedIsSaved PromiseKept
