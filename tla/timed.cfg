SPECIFICATION TSpec
CONSTANTS
  t1 = t1
  u1 = u1
  Requests = {r1, r2}
  Tokens = {t1}
  Users = {u1}
  Owner <- MCOwner
  Nothing = none
  Queries <- MCQueries
  LimitPerHost = 1
  LateTimeouts = {r1, r2}
  SlowClients = {}
  MaxChunks = 1
  Expiry <- MCExpiry
  AuthConnect = 1
  AuthTotal = 2
  UpConnect = 1
  UpTotal = 3
  Keepalives = {1, 5}
  ServerIdle = 5
  Delay = 1
  MaxTime = 6
CHECK_DEADLOCK FALSE
SYMMETRY Symmetry
INVARIANTS
  BoundedWait
  BoundedStaleness
  KeepaliveMargin
