CONSTANTS
  Values = {0, 1}
  NoValue = NoValue
  TimeoutMs = 4
  RequestTimeoutMs = 2
  IntervalMs = 1
  StableSamples = 2
  MaxRetained = 3
  MaxLag = 1
  MaxChanges = 2

SPECIFICATION FairSpec

INVARIANTS
  EvidenceIsExact
  VerdictIsSupported
  ConfirmedAfterWindow
  WindowIsBounded
PROPERTY
  Settles
