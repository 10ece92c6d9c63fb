CONSTANTS
  p1 = p1
  p2 = p2
  Procs = {p1, p2}
  Rows = {r1, r2}
  MaxId = 3
  Uses <- MCUses
  Reload = TRUE
  NoProc = NoProc
SPECIFICATION Spec
INVARIANTS TypeOK RowsKeepTheirObjects StoreExact
PROPERTY WriteReachesRow
SYMMETRY RowSymmetry
