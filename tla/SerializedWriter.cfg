CONSTANTS
  MaxFrameBytes = 2
  MaxQueuedMessages = 3
  MaxQueuedBytes = 7
  MaxSends = 5

SPECIFICATION FairSpec

INVARIANTS
  AccountingIsExact
  ReceiptsAreEvidence
PROPERTIES
  FinishSettles
  Delivery
