CONSTANTS
  Procs = {p1, p2}
  NoProc = NoProc
  Scenarios <- MCScenarios
  Baseline = 0
  Once = 1
  CancelledEffect = 0
  MaxEffect = 2

SPECIFICATION Spec
SYMMETRY Symmetry

INVARIANT
  ViolationIsProven
