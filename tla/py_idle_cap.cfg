SPECIFICATION Spec
CONSTANTS
  t1 = t1
  t2 = t2
  u1 = u1
  u2 = u2
  Requests = {r1, r2}
  Tokens = {t1, t2}
  Users = {u1, u2}
  Owner <- MCOwner
  Nothing = none
  Queries <- MCFewQueries
  LimitPerHost = 1
  LateTimeouts = {r1, r2}
  SlowClients = {}
  MaxChunks = 1
CHECK_DEADLOCK FALSE
INVARIANT
  CapsIdleConnectionsOnly
