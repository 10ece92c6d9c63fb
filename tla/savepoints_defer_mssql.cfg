CONSTANTS
  m1 = m1
  m2 = m2
  Marks = {m1, m2}
  Dialects = {"mssql"}
  MaxHandles = 4
  DeferOn = {"mssql"}
SYMMETRY Symmetry
SPECIFICATION Spec
CHECK_DEADLOCK FALSE
PROPERTY LateRollbackIsNoOp
