SPECIFICATION SwitchesSpec
CONSTANTS
  Device <- MCDevice
  Nio = {p, q}
  NoNio = NoNio
  Mac = {m1, m2}
  m1 = m1
  m2 = m2
  Mcast = Mcast
  Vlan = {1, 2}
  MaxNio = 2
  Bucket = {1, 2}
  Tags <- MCTags
  Hash <- MCHash
  Netio = {r, s}
  NoNetio = NoNetio
  Dlci = {1, 2, 3}
  DlciBucket = {0, 1}
  DlciHash <- MCDlciHash
  MaxCall = 1
  MaxVc = 3
  VpiIn = {1, 2}
  Vci = {1}
  VpiOut = {1}
  Payload = 4
  Trailer = 2
  Header = 1
  ReasMax = 8
  FrameLens = {1, 2, 6}
  MaxFrames = 3
  MaxWire = 5
  MaxBridge = 3
  FifoNio = {f, g, h}
  Recross = FALSE
  MaxPkt = 2
SYMMETRY Symmetry
INVARIANTS
  MatchHasPort
  LocationCurrent
  EgressKeepsVlan
  CircuitExact
  CircuitResources
  FrameCarried
  FifosPaired
