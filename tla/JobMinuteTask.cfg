SPECIFICATION JobsSpec
CHECK_DEADLOCK FALSE
CONSTANTS
  Keys = {j1}
  MaxTime = 3
  RunsPerAlarm = 1
  MaxCrashes = 0
  Tasks = {t1}
  LeaseTime = 1
  TaskClock = "start"
PROPERTIES
  TaskSkipsNoDueJob
