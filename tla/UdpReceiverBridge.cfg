SPECIFICATION FairSpec
CONSTANTS
  Nio = {n}
  Client = {a}
  Switch = {}
  Bridge = {a}
  MaxUse = 1
  MaxListener = 2
  MaxBurst = 2
CHECK_DEADLOCK FALSE

PROPERTY
  CallsReturn
