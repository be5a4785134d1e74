SPECIFICATION Spec
CONSTANTS
  f1 = f1
  f2 = f2
  None = None
  Filler = {f1, f2}
  MaxVersion = 2
  LockTtl = 1
  WaitTimeout = 1
  OnTimeout = "load"
  MaxPipe = 1
  PatternCalls = TRUE
SYMMETRY FillerSymmetry
CONSTRAINT PatternAlone
INVARIANTS NoStaleFill LeaseSound
PROPERTY ImplementsEntry
