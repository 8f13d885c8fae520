CONSTANTS
  ToolNames = {t1, t2, t3, t4}
  Cursors = {c1, c2, c3}
  NoCursor = NoCursor
  MaxListPages = 3
  MaxTools = 3
  MaxPageTools = 2

SPECIFICATION CatalogSpec
SYMMETRY Symmetry

INVARIANT
  CatalogIsWhole
