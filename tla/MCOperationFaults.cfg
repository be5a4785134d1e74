SPECIFICATION Spec
CONSTANTS
  w1 = w1
  w2 = w2
  a = a
  b = b
  Worker = {w1, w2}
  Owner = {o1, o2, o3}
  Id = {i1, i2}
  Identity = {a, b}
  Result = {r1}
  None = None
  Ident <- OneIdentity
  Lease <- ShortTimes
  Retention <- UnequalKeep
  MaxTime = 3
  Anchored = FALSE
  Closing = {}
  Flushing = TRUE
  Resends = FALSE
SYMMETRY Interchange
INVARIANT DefiniteMeansNoWrite
PROPERTY RetentionKept
