SPECIFICATION Spec
CHECK_DEADLOCK FALSE
CONSTANTS
  ada = ada
  Triggers = {t1, t2}
  Users = {ada}
  UserOf <- OneUser
  Steps <- Welcome
  Attempts = {x1, x2}
  MaxFaults = 1
  Nobody = Nobody
INVARIANTS
  SequenceInv
  ActiveIsDriven
  StopsWhereItIs
  WaitsAreKept
PROPERTIES
  ImplementsContract
  RunsEnd
