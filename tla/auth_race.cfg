SPECIFICATION Spec
CONSTANTS
  Procs = {g1, g2, g3}
  Emails = {alice}
  NoEmail = none
  Passwords <- MCTwo
  Length <- MCLength
  Key <- MCKey
  Nobody = nobody
  Nothing = nil
  TicksPerSecond = 1
  TTL = 1
  MaxUuid = 2
  MaxTokens = 3
  MaxEpoch = 1
  MaxTime = 0
SYMMETRY Symmetry
INVARIANTS
  NoConcurrentMapAccess
  UniqueAccounts
  SnapshotCurrent
  TokensBacked
