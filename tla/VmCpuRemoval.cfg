SPECIFICATION Spec
CONSTANTS
  Cpu = {c1, c2}
  NoCpu = NoCpu
INVARIANT
  RemovalQuiescent
