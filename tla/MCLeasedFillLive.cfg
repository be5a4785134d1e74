SPECIFICATION PartsSpec
CONSTANTS
  f1 = f1
  f2 = f2
  f3 = f3
  None = None
  Filler = {f1, f2}
  MaxVersion = 1
  LockTtl = 1
  WaitTimeout = 1
  OnTimeout = "load"
  MaxPipe = 1
  PatternCalls = FALSE
PROPERTIES
  PairWaiterResolves
  SoloOrphanLockExpires
