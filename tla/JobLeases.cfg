SPECIFICATION JobsSpec
CHECK_DEADLOCK FALSE
CONSTANTS
  Keys = {j1}
  MaxTime = 2
  RunsPerAlarm = 1
  MaxCrashes = 1
  Tasks = {t1}
  LeaseTime = 1
  TaskClock = "now"
INVARIANTS
  JobsInv
  LeasesDoNotOverlap
PROPERTIES
  SlotsCompleteOnce
  LeaseEndsWithItsRun
