SPECIFICATION DailySpec
CONSTANTS
  TicksPerSecond = 3
  Shrink = 4
  Day = 7
  TwoOClock = 2
  ThreeOClock = 4
  MaxSetup = 1
  MaxBusy = 2
  MaxClock = 80
  Others = {"io"}
INVARIANTS
  OneTimerPerTask
  ArmedForEarliest
  SpiderFirst
  OneSpider
  NoZombieStays
  PidIsTheSpider
CHECK_DEADLOCK FALSE
