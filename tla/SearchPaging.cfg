SPECIFICATION FairSpec
CONSTANTS
  Entities = {e1, e2, e3}
  Terms = {t1, t2}
  MaxRows = 3
  Limits = {1, 2}
  MaxQueries = 10
  Constrained = FALSE
INVARIANTS
  EveryHitReturned
  NothingElseReturned
PROPERTY PagesEnd
CHECK_DEADLOCK FALSE
