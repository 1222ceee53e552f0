SPECIFICATION Spec
CONSTANTS
  Entities = {e1, e2, e3}
  Terms = {t1}
  MaxRows = 4
  Limits = {1, 2}
  MaxQueries = 10
  Constrained = FALSE
INVARIANT NoRepeat
CHECK_DEADLOCK FALSE
