SPECIFICATION Spec
CHECK_DEADLOCK FALSE
CONSTANTS
  Messages = {m1}
  Endpoints = {e1, e2}
  Subscribed <- AllSubscribed
  Nothing = Nothing
  Replays = {r1, r2}
  Workers = {w1, w2}
  MaxAttempts = 2
  MaxTenant = 1
  MaxEndpoint = 1
  MaxFaults = 1
INVARIANTS
  WebhookInv
  ErasedIsStopped
PROPERTIES
  ImplementsContract
CONSTRAINT OneRace
SYMMETRY Alike
