SPECIFICATION JobsSpec
CHECK_DEADLOCK FALSE
CONSTANTS
  Keys = {j1}
  MaxTime = 3
  RunsPerAlarm = 1
  MaxCrashes = 1
  Tasks = {}
  LeaseTime = 1
  TaskClock = "now"
PROPERTIES
  CrashRepeatsTheSlot
