SPECIFICATION Spec
CONSTANTS
  Entities = {e1, e2}
  Guids = {g1, g2}
  v1 = v1
  V1 = V1
  v2 = v2
  Values = {v1, v2}
  Fold <- MCFold
  u1 = u1
  U1 = U1
  Users = {u1}
  FoldUser <- MCFoldUser
  Id = id
  Literals = {id}
  LinkTypes = {knows}
  UniqueForward = {}
  UniqueReverse = {}
  None = None
SYMMETRY Symmetry
INVARIANT NoSelfReplacement
CHECK_DEADLOCK FALSE
