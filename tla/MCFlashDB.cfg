\* Two daemons save, as nothing keeps them from doing; nobody is killed.
SPECIFICATION SaveSpec
CONSTANTS
  p1 = p1  p2 = p2  p3 = p3
  sys = sys  acl = acl  x = x  id = id  v1 = v1
  NoFile = NoFile
  Cats = {sys, acl}
  ListCats = {acl}
  Items = {x, id}
  IdItem = id
  Values = {v1}
  MaxNum = 1
  MaxLines = 2
  Proc = {p1, p2}
  Savers = {p1, p2}
  Stamps <- MCStamps
  Request <- MCRequest
  InitDb <- MCInitDb
  InitList <- MCInitList
INVARIANT ImagesComplete
