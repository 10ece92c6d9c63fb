SPECIFICATION Spec
CONSTANTS
  p1 = p1
  p2 = p2
  Procs = {p1, p2}
  Dialects = {"sqlite", "postgres", "mysql", "mssql"}
  Scenarios <- MCScenarios
  Tables <- MCTables
  Rows = {r1}
  MaxFaults = 1
INVARIANTS TypeOK SearchFollows ModelsAgree
PROPERTIES NilMeansDeclared RerunChangesNothing DownUndoesUp EventuallyMigrated
