CONSTANTS
  Clients = {c1, c2}
  Conns = {x1, x2}
  None = None
  Results = {r1, r2}
  MaxRows = 1
  MaxUpdates = 2
SPECIFICATION SSpec
SYMMETRY Symmetry
INVARIANTS TypeOK RowsAreOwn ResultsFreed OnlyRiskedLost
CHECK_DEADLOCK FALSE
