SPECIFICATION Spec
CONSTANTS
  Cells = 2
  TicksPerSecond = 2
  Retention = 13
  Count = 60
  Warmup = 0
  Cooldown = 0
  ShortRun = 4
  LongRun = 4
  MaxRun <- MCMaxRun
  MaxRestarts = 1
  UpTimes = {0}
  Nothing = nil
CHECK_DEADLOCK FALSE
INVARIANTS
  DeltaNotAboveTraffic
