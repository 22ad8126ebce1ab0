SPECIFICATION FairSpec
CONSTANTS
  Device = {"am79c971", "dec21140", "i8254x", "i8255x", "mueslix", "pos"}
  RxLen = 2
  TxLen = 3
  MaxUnit = 2
  PassCount = 2
  MaxFrame <- MCMaxFrame
  MaxPkt <- MCMaxPkt
  Mode = {{}, {"DRX", "DTX"}}
  MaxStop = 1
  LateReceive = FALSE
  ClearReads = 2
INVARIANTS
  FrameReadable
  PacketWhole
  Announced
PROPERTY
  Served
