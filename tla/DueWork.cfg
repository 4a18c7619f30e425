SPECIFICATION FairDueWork
CONSTANTS
  Keys = {k1, k2, k3}
  MaxTime = 2
  RunsPerAlarm = 2
  MaxCrashes = 1
INVARIANTS
  DueWorkInv
  AlarmMatchesWork
PROPERTIES
  DueWorkStarts
  ImplementsContract
