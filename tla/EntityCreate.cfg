SPECIFICATION FairSpec
CONSTANTS
  Nodes = {n1, n2, n3, n4, n5}
  Ids = {i1, i2}
  Others = {types, guid}
  MaxTries = 2
  Faults = {"node", "link", "lost", "abort"}
  MaxFaults = 3
  None = None
INVARIANTS
  TypeOK
  IdOnce
  CreatedComplete
  RolledBack
PROPERTY Answered
CHECK_DEADLOCK FALSE
