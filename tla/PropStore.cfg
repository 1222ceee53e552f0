SPECIFICATION Spec
CONSTANTS
  Entities = {e1, e2}
  Guids = {g1, g2, g3, g4}
  v1 = v1
  V1 = V1
  v2 = v2
  Values = {v1, V1, v2}
  Fold <- MCFold
  u1 = u1
  U1 = U1
  Users = {u1}
  FoldUser <- MCFoldUser
  Id = id
  Literals = {id}
  LinkTypes = {knows}
  UniqueForward = {}
  UniqueReverse = {}
  None = None
SYMMETRY Symmetry
INVARIANTS
  TypeOK
  IdUnique
  NoStrandedLink
  NoDuplicates
  ChainsEnd
PROPERTIES
  HistoryKept
  CompletionLosesNoLink
  KeepsRegistry
CHECK_DEADLOCK FALSE
