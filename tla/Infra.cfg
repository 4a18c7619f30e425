SPECIFICATION Spec
CHECK_DEADLOCK FALSE
CONSTANTS
  create = create
  other = other
  first = first
  second = second
  third = third
  Operations = {create, other}
  Resources = {database, bucket}
  Plan <- WholePlan
  Runs = {first, second, third}
  OperationOf <- OneRival
  MaxCalls = 2
  MaxFaults = 3
  Nothing = Nothing
INVARIANTS
  InfraInv
  NoDuplicate
  NothingLost
PROPERTIES
  ImplementsContract
SYMMETRY Alike
