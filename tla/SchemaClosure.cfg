SPECIFICATION FairSpec
CONSTANTS
  a = a
  b = b
  c = c
  d = d
  None = None
  Absent = Absent
  Types = {a, b, c, d}
  Schemas <- MCSchemas
INVARIANTS
  ClosureSound
  ParentsFirstWhole
  OrderSound
  RefusedIffCircular
  PrimaryPairs
PROPERTY Ends
CHECK_DEADLOCK FALSE
