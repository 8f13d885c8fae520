SPECIFICATION SessionSpec

INVARIANTS
  ReportsAreHonest
  LabelIsHonest
  DisconnectionIsTheCause
PROPERTIES
  TerminationSettles
  KeepsContract
