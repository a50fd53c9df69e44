SPECIFICATION FairSpec
CONSTANTS
  Threads = {t1, t2}
  Loop = loop
  NoThread = none
  MaxCalls = 2
  MaxStimuli = 1
  GarbageOut = {TRUE, FALSE}
INVARIANTS
  TypeOK
  NoMissedWakeup
PROPERTIES
  ImplementsFunctorQueue
  SignalledIsRun
  QuitEndsLoop
CHECK_DEADLOCK FALSE
