SPECIFICATION Spec
CONSTANTS
  None = None
  Documents <- MCDocuments
  Requests <- MCRequests
  Strand <- MCStrand
  MathGrades = {"K"}
  ElaGrades = {"K", "6-8"}
  MaxLost = 1
  PageSize = 3
  Readers = {r1}
INVARIANTS
  LoadedWhole
  AnswersBetween
  PartsWhole
  LoadedIsRead
CHECK_DEADLOCK FALSE
