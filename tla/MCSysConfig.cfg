\* Two daemons, every command, SIGTERM and SIGKILL at any time.
SPECIFICATION FairSpec
CONSTANTS
  p1 = p1  p2 = p2
  wan = wan  acl = acl  x = x  id = id  v1 = v1  v2 = v2
  NoFile = NoFile
  Cats = {wan, acl}
  ListCats = {acl}
  Items = {x, id}
  IdItem = id
  Values = {v1, v2}
  MaxNum = 2
  MaxLines = 3
  Proc = {p1, p2}
  Request <- MCRequest
  InitDb <- MCInitDb
  InitList <- MCInitList
INVARIANTS MutualExclusion RenameInstallsOwnEdit CategoryFilesIntact OneOwner SaveLosesNothing
PROPERTIES Linearizable LockReleased
