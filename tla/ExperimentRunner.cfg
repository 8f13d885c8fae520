CONSTANTS
  Procs = {p1, p2}
  NoProc = NoProc
  Scenarios <- MCScenarios
  Baseline = 0
  Once = 1
  CancelledEffect = 0
  MaxEffect = 2

SPECIFICATION FairSpec

INVARIANTS
  TypeOK
  AtMostOneTarget
  NoSilentLeak
  PassIsDurable
  CleanMeansQuiescent
  CrossEpochRetryIsIsolated
  VerdictsAreEarned
PROPERTIES
  AbortStopsExercise
  SuiteEnds
