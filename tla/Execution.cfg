SPECIFICATION ExecutionSpec
CONSTANTS
  None = None
  va = va
  vb = vb
  vd = vd
  ve = ve
  pa = pa
  pb = pb
  pd = pd
  s1 = s1
  s2 = s2
  m1 = m1
  DataPage = {ve}
  CodePage = {va, vb, vd}
  Phys = {pa, pb, pd}
  Map <- MCMap
  OnDevice = {vd}
  Untranslated = {}
  Vectors = ve
  Offset <- MCOffset
  Slot = {s1, s2}
  SlotOf <- MCSlotOf
  Bucket = {m1}
  BucketOf <- MCBucketOf
  PhysSlotOf <- MCPhysSlotOf
  ExecPage <- MCExecPage
  Content = {0, 1}
  MaxFill = 2
  MaxChunks = 2
  Threshold = 1
  UndefMax = 1
  DelaySlot = {1}
  Page = {0, 1}
  SegSize = 2
  PtegSize = 1
  Vsid = {0, 1}
  Pid = {0, 1}
  Modes <- MCModes
  Bats <- MCBats
  Mappings <- MCMappings
  MtsBucket = {m1}
  MtsBucketOf <- MCMtsBucketOf
  Device = {2}
  Sparse = {3}
  Ghosted = TRUE
  TlbSize = 2
  MipsPage = {0, 1, 3, 4}
  ZoneOf <- MCZoneOf
  Direct <- MCDirect
  Contents <- MCContents
  Wired = 1
  Asid = {0, 1}
  MipsBucketOf <- MCMipsBucketOf
  Size = 16
  MaxSteps = 2
INVARIANTS
  PagesOwned
  BlocksFound
PROPERTIES
  ForgottenCode
  ForgottenPages
  AccessWhole
CHECK_DEADLOCK FALSE
