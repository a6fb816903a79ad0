\* Both processes run batches and commands, one imports; any may be killed.
SPECIFICATION BatchSpec
CONSTANTS
  p1 = p1  p2 = p2
  acl = acl  sys = sys  id = id  x = x  v1 = v1
  NoFile = NoFile
  Cats = {acl, sys}
  ListCats = {acl}
  Items = {x, id}
  IdItem = id
  Values = {v1}
  MaxNum = 1
  MaxLines = 2
  MaxBatch = 1
  Proc = {p1, p2}
  Batchers = {p1, p2}
  Splitters = {p2}
  Faults = TRUE
  Import <- MCImport
  Targets <- MCTargets
  Request <- MCRequest
  InitDb <- MCInitDb
  InitList <- MCInitList
INVARIANTS LockDiscipline FilesKept SplitComplete
\* a lock file that a dead process left keeps everyone waiting
CHECK_DEADLOCK FALSE
