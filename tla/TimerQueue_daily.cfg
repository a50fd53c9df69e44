SPECIFICATION Spec
CONSTANTS
  TicksPerSecond = 3
  Shrink = 4
  Day = 7
  TwoOClock = 2
  ThreeOClock = 4
  MaxSetup = 0
  MaxBusy = 2
  MaxClock = 80
INVARIANT RunsDaily
CHECK_DEADLOCK FALSE
