CONSTANT
  MaxChanges = 2

SPECIFICATION Spec

INVARIANTS
  ExitMatchesReport
  NothingIsLeft
PROPERTY
  OthersAreKept
