SPECIFICATION Spec
CONSTANTS
  Conn = {c1, c2}
  Name = {n1, n2}
  MaxObj = 3
  n1 = n1
  n2 = n2
  c1 = c1
  c2 = c2
  NoConn = NoConn
  Scopes <- RenameScopes
  OtherPlatform = "other"
  MaxUse = 2
  RenameAlone = FALSE
INVARIANTS
  PointersLive
CHECK_DEADLOCK FALSE
