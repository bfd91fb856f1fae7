SPECIFICATION FairSpec
CONSTANTS
  Cells = 2
  TicksPerSecond = 2
  Retention = 19
  Count = 9
  Warmup = 4
  Cooldown = 0
  ShortRun = 3
  LongRun = 10
  MaxRun <- MCMaxRun
  MaxRestarts = 1
  UpTimes = {1, 4, 5}
  Nothing = nil
CHECK_DEADLOCK FALSE
INVARIANTS
  TypeOK
  DeltaIsTheCells
  NoSampleLost
  StatsOrdered
  ColdStartCovered
PROPERTIES
  AllCellsRun
