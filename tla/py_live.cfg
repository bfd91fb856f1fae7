SPECIFICATION FairSpec
CONSTANTS
  t1 = t1
  t2 = t2
  u1 = u1
  u2 = u2
  Requests = {r1, r2, r3}
  Tokens = {t1, t2}
  Users = {u1, u2}
  Owner <- MCOwner
  Nothing = none
  Queries <- MCFewQueries
  LimitPerHost = 1
  LateTimeouts = {r1, r2, r3}
  SlowClients = {r1}
  MaxChunks = 1
CHECK_DEADLOCK FALSE
PROPERTY
  Settled
