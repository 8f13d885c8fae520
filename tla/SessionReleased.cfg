SPECIFICATION SessionSpec

PROPERTY
  ClosedIsReleased
