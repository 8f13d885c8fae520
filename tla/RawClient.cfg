CONSTANTS
  Names = {a}
  MaxSafeId = 2
  MaxTombstones = 2
  MaxCalls = 3

SPECIFICATION FairSpec

INVARIANT
  RequestsAreTracked
PROPERTIES
  LateAnswersAreHarmless
  ImplementsContract
  EverythingSettles
