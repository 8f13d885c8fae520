CONSTANTS
  MaxBytes = 4
  MaxMessages = 3
  MaxPendingReceives = 2
  MaxMessageBytes = 2
  MaxPushes = 6
  MaxReceives = 7

SPECIFICATION Spec
CHECK_DEADLOCK FALSE

INVARIANTS
  NoStrandedReceiver
  BooksBalance
  NothingLost
PROPERTY
  RejectsOnlyWhenDrained
