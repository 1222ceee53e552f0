SPECIFICATION FairSpec
CONSTANTS
  a = a
  b = b
  c = c
  d = d
  None = None
  Absent = Absent
  Types = {a, b, c, d}
  Schemas <- MCSchemas
INVARIANT ClosureWhole
CHECK_DEADLOCK FALSE
