SPECIFICATION ServicesSpec
CONSTANTS
  Tty = {t}
  Client = {c, d}
  Replay = 1
  Limit = 1
  MaxOut = 2
  MaxGen = 2
  MaxStart = 2
  NoTty = NoTty
  NoClient = NoClient
  TimerCaller = {a}
  MaxId = 2
  MaxArm = 2
  MaxCycle = 2
  NoCaller = NoCaller
CHECK_DEADLOCK FALSE
INVARIANTS
  CallbacksOwned
  OnePending
  OutputContiguous
PROPERTIES
  RefusedSilent
  ServicesAnswer
