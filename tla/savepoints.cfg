CONSTANTS
  m1 = m1
  m2 = m2
  Marks = {m1, m2}
  Dialects = {"sqlite", "mysql", "mssql", "postgres"}
  MaxHandles = 4
  DeferOn = {"sqlite", "mysql", "postgres"}
SYMMETRY Symmetry
SPECIFICATION Spec
CHECK_DEADLOCK FALSE
INVARIANTS TypeOK OpenHandlesRestorable
PROPERTIES ImplementsNestedTx LateRollbackIsNoOp
