SPECIFICATION Spec
CONSTANTS
  Procs = {g1, g2}
  Emails = {alice}
  NoEmail = none
  Passwords <- MCPasswords
  Length <- MCLength
  Key <- MCKey
  Nobody = nobody
  Nothing = nil
  TicksPerSecond = 1
  TTL = 1
  MaxUuid = 2
  MaxTokens = 2
  MaxEpoch = 0
  MaxTime = 0
INVARIANT
  RegisterAnswers201Or409
