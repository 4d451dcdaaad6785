CONSTANTS
  Admins = {p1, p2}
  Analyzers = {a1}
  Edges = {x}
  MaxTraffic = 1
  MaxBaselines = 2
  MaxFailures = 0
SPECIFICATION Spec
SYMMETRY Symmetry
INVARIANTS
  OneActiveBaseline
