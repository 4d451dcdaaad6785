CONSTANTS
  None = None
  Workers = {w1, w2}
  Admins = {p1}
  Producers = {q1}
  Rules = {r1}
  MaxAttempts = 2
  BatchSize = 2
  MaxDeliveries = 2
  MaxFailures = 1
SPECIFICATION FairSpec
INVARIANTS
  OutcomesAudited
  DuplicatesOnlyFromFailures
PROPERTIES
  DeletedRulesAreSilent
  ImplementsLifecycle
  DeliveriesEnd
CHECK_DEADLOCK FALSE
