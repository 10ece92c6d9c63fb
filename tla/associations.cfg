CONSTANTS
  Owners <- MCOwners
  Targets = {t1, t2}
  None = None
  Kinds = {"has-many", "has-one", "m2m"}
  Assignable = TRUE
SPECIFICATION Spec
INVARIANT TypeOK
PROPERTIES CallsExact OwnerDecides WritesBack
