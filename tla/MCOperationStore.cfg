SPECIFICATION Spec
CONSTANTS
  w1 = w1
  w2 = w2
  a = a
  b = b
  Worker = {w1, w2}
  Owner = {o1, o2, o3}
  Id = {i1, i2}
  Identity = {a, b}
  Result = {r1}
  None = None
  Ident <- OneIdentity
  Lease <- UnequalTimes
  Retention <- UnequalTimes
  MaxTime = 2
  Anchored = TRUE
  Closing = {}
  Flushing = FALSE
  Resends = TRUE
SYMMETRY Interchange
INVARIANT LocalLeaseExclusive
PROPERTY ImplementsLedger
