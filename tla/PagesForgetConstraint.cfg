SPECIFICATION Spec
CONSTANTS
  Entities = {e1, e2, e3}
  Terms = {t1}
  MaxRows = 4
  Limits = {1, 2, 3}
  MaxQueries = 10
  Constrained = TRUE
INVARIANT ConstraintMet
CHECK_DEADLOCK FALSE
