CONSTANTS
  v1 = v1
  v2 = v2
  v1padded = v1padded
  blank = blank
  None = None
  Procs = {p1, p2}
  Versions = {v1, v2, v1padded, blank}
  Strip <- MCStrip
  MaxCaptures = 3
  MaxRequests = 2
SPECIFICATION Spec
SYMMETRY Symmetry
INVARIANTS
  DriftConsistent
  AuditTellsDrift
  AlertedOncePerDrift
CHECK_DEADLOCK FALSE
