SPECIFICATION Spec
CONSTANTS
  Conn = {c1, c2}
  Name = {n1, n2}
  MaxObj = 3
  n1 = n1
  n2 = n2
  c1 = c1
  c2 = c2
  NoConn = NoConn
  Scopes <- AllScopes
  OtherPlatform = "other"
  MaxUse = 2
  RenameAlone = TRUE
INVARIANTS
  PointersLive
  ReferencesBalanced
  AnsweredOnce
  ConnectionOwned
PROPERTIES
  HypervisorServes
CHECK_DEADLOCK FALSE
