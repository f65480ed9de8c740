SPECIFICATION WebSpec
CONSTANTS
  Procs = {p1, p2}
  Slots = {s1, s2}
  Codes = {c1, c2}
  MaxPasswords = 3
  MaxSetUps = 2
  MaxTokens = 1
  MaxUncounted = 1
  MaxAccounts = 2
  MaxNonces = 3
  People = {s1, s2}
  Reserved = {d1}
  Callbacks = {p1, p2}
  Users = {u1}
  Subs = {s1, s2}
  Names = {z1}
  MaxRows = 2
  Requests = {p1, p2}
  Fetchers = {f1}
  Limit = 1
  Apps = {p1, p2}
  Bundles = {b1}
  Settings = {g1}
  Senders = {s1, s2}
  MaxClock = 3
  MaxGiven = 4
  Clients = {p1, p2}
  Primary = t0
  DataSessions = {t1}
  Visitors = {v1}
  PoolSize = 1
  Workers = {j1}
  MaxStreams = 2
  None = None
SYMMETRY Symmetry
CHECK_DEADLOCK FALSE
INVARIANTS OldSessionsEnd TokensBounded SecondFactorHolds DomainsServed ArrivedIsKept KeyringHolds
INVARIANT SessionsClosed
PROPERTIES BlockedStaysOut MergesKeep NewerStays
