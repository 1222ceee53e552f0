SPECIFICATION Spec
CONSTANTS
  c1 = c1
  c2 = c2
  path1 = path1
  init1 = init1
  frame1 = frame1
  frame2 = frame2
  frame3 = frame3
  set1 = set1
  gradeK = gradeK
  gradeL = gradeL
  holder = holder
  comp = comp
  resource = resource
  ordering = ordering
  author = author
  std = std
  anchor = anchor
  None = None
  NoName = NoName
  Posts = {1, 2}
  Docs <- MCDocs
  Loaded <- MCLoaded
  Orderings <- MCOrderings
  PageSize = 2
  PathsLimit = 3
  MaxFaults = 2
INVARIANTS
  ReadsWhole
  ReadsInOrder
  RefsFirst
  ImportedIsFound
CHECK_DEADLOCK FALSE
