SPECIFICATION Spec
CHECK_DEADLOCK FALSE
CONSTANTS
  Events = {e1}
  Dispatchers = {d1, d2}
  Executors = {x1, x2}
  Runtimes = {"external", "queue"}
  MaxAttempts = 2
  MaxRedrives = 1
  MaxTries = 2
  BatchLimit = 1
SYMMETRY Actors
CONSTRAINT Bounded
INVARIANTS
  DeliveryInv
  CompletedOnce
  SoleHolder
  RefusedLeavesNoClaim
  DispatchedHasRun
PROPERTIES
  DeadUntilRedriven
  SettlementStartsAfresh
  ImplementsContract
