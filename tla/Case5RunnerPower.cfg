SPECIFICATION Spec
CONSTANTS
  N = 2
  Proc = {p1, p2, p3}
  NoProc = NoProc
  Result = {r1, r2}
  NoResult = NoResult
  ChildStages = {2}
  PowerCuts = TRUE
  MaxFaults = 3
SYMMETRY Symmetry
INVARIANTS
  Loadable
PROPERTIES
  ImplementsPipeline
