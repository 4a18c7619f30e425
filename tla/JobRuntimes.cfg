SPECIFICATION Spec
CHECK_DEADLOCK FALSE
CONSTANTS
  d1 = d1
  o1 = o1
  Events = {e1}
  MaxAttempts = 2
  MaxRedrives = 0
  Isolates = {i1}
  Drains = {d1, d2}
  Operators = {o1, o2}
  Declared = "cloudflare"
  CacheTime = 2
  MaxChanges = 2
CONSTRAINT Bounded
INVARIANTS
  RuntimesInv
  HandedOver
PROPERTIES
  ChangesAreReviewed
