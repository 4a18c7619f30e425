SPECIFICATION FairSpec
CHECK_DEADLOCK FALSE
CONSTANTS
  Events = {e1}
  Dispatchers = {d1}
  Executors = {x1}
  Runtimes = {"external"}
  MaxAttempts = 2
  MaxRedrives = 0
  MaxTries = 1
  BatchLimit = 1
PROPERTIES
  CommittedResolves
