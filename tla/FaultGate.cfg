CONSTANTS
  MaxArms = 2
  MaxMessages = 3

SPECIFICATION FairSpec

INVARIANTS
  OneTerminalOperation
  TriggerIsInjected
  EvidenceMatchesWithheld
PROPERTY
  NobodyWaitsForEver
