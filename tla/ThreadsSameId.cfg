SPECIFICATION Spec
CONSTANTS
  Entities = {e1, e2}
  Guids = {g1, g2, g3, g4}
  Values = {v1, v2}
  Fold <- MCFold
  u1 = u1
  U1 = U1
  Users = {u1}
  FoldUser <- MCFoldUser
  Id = id
  Literals = {id}
  LinkTypes = {knows}
  None = None
  Workers = {w1, w2}
  Kills = FALSE
  MaxRequests = 2
SYMMETRY Symmetry
INVARIANT OneHolder
CHECK_DEADLOCK FALSE
