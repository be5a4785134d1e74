SPECIFICATION Spec
CONSTANTS
  f1 = f1
  None = None
  Filler = {f1}
  MaxVersion = 2
  LockTtl = 1
  WaitTimeout = 0
  OnTimeout = "throw"
  MaxPipe = 2
  PatternCalls = TRUE
INVARIANT
  PatternFenced
