SPECIFICATION Spec
CONSTANTS
  Nodes = {n1, n2, n3, n4, n5}
  Ids = {i1}
  Others = {types, guid}
  MaxTries = 3
  Faults = {"node"}
  MaxFaults = 3
  None = None
SYMMETRY Symmetry
INVARIANT GivesUp
CHECK_DEADLOCK FALSE
