SPECIFICATION FairSpec
CONSTANTS
  Cpu = {c1}
  NoCpu = NoCpu
INVARIANTS
  QuiescentChange
  ThreadsEnded
PROPERTIES
  CallsReturn
  ResumeRuns
