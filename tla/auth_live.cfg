SPECIFICATION FairSpec
CONSTANTS
  Procs = {g1, g2, g3}
  Emails = {alice}
  NoEmail = none
  Passwords <- MCOne
  Length <- MCLength
  Key <- MCKey
  Nobody = nobody
  Nothing = nil
  TicksPerSecond = 1
  TTL = 1
  MaxUuid = 2
  MaxTokens = 2
  MaxEpoch = 0
  MaxTime = 0
PROPERTY
  Answered
