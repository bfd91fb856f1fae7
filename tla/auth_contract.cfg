SPECIFICATION Spec
CONSTANTS
  Procs = {g1, g2}
  Emails = {alice}
  NoEmail = none
  Passwords <- MCEdges
  Length <- MCLength
  Key <- MCKey
  Nobody = nobody
  Nothing = nil
  TicksPerSecond = 2
  TTL = 2
  MaxUuid = 2
  MaxTokens = 2
  MaxEpoch = 1
  MaxTime = 4
INVARIANTS
  TypeOK
  VerifyWindow
PROPERTY
  RefinesRegistry
