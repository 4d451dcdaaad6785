CONSTANTS
  None = None
  Workers = {w1, w2}
  Admins = {p1, p2}
  Producers = {q1}
  Destinations = {x1}
  MaxAttempts = 2
  BatchSize = 2
  MaxDeliveries = 2
  MaxFailures = 1
SPECIFICATION FairSpec
INVARIANT
  AuditTellsSwitch
PROPERTIES
  DisabledStaysSilent
  ImplementsLifecycle
  RequestsEnd
  DeliveriesEnd
