CONSTANTS
  Admins = {p1}
  Analyzers = {a1, a2}
  Edges = {x, y}
  MaxTraffic = 2
  MaxBaselines = 2
  MaxFailures = 1
SPECIFICATION FairSpec
INVARIANTS
  NewEdgesAlertedOnce
PROPERTIES
  ReplacedBaselineIsSilent
  EvidenceOnlyGrows
  NewEdgesAreReported
