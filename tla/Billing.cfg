SPECIFICATION Spec
CHECK_DEADLOCK FALSE
CONSTANTS
  MaxEvents = 3
  Subscriptions = {s1, s2}
  Orgs = {o1, o2}
  Workers = {w1, w2}
  MaxPasses = 2
  MaxFaults = 1
SYMMETRY Twins
INVARIANTS
  BillingInv
  SettledWhenReconciled
  SettledIsFresh
  EventWhenProcessed
  StandsForOwner
PROPERTIES
  ImplementsContract
