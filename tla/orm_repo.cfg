CONSTANTS
  Procs = {p1, p2}
  MaxId = 2
  MaxWrites = 4
  Embeddings = {e1, e2}
  Empty = Empty
  Nobody = Nobody
  Reload = TRUE
SYMMETRY Symmetry
SPECIFICATION Spec
INVARIANTS TypeOK SidecarTracks
PROPERTIES NoResurrection WritesOwnRow
