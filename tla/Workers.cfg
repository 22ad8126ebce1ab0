SPECIFICATION WorkersSpec
CONSTANTS
  Nio = {n}
  Client = {a, b}
  Switch = {a}
  Bridge = {}
  MaxUse = 1
  MaxListener = 2
  MaxBurst = 2
  MaxId = 2
  MaxStart = 2
  RxNio = {f, s}
  FdNio = {f}
  NoNio = NoNio
INVARIANTS
  CallbacksOwned
  OnePending
PROPERTIES
  TasksSwept
  WorkersAnswer
