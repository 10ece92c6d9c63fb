CONSTANTS
  Procs = {p1, p2}
  Exclusive = TRUE
  Versions <- MCVersions
  Stmts <- MCStmts
  DownText <- MCDownText
  FromFiles = FALSE
  Calls <- Appended
SPECIFICATION FairSpec
INVARIANTS TypeOK CleanMeansComplete InPlace
PROPERTIES CallsComplete RefusesUntilForce
