SPECIFICATION LiveSpec
CONSTANTS
  w1 = w1
  w2 = w2
  a = a
  b = b
  Worker = {w1, w2}
  Owner = {o1, o2}
  Id = {i1, i2}
  Identity = {a, b}
  Result = {r1}
  None = None
  Ident <- TwoIdentities
  Lease <- UnequalTimes
  Retention <- UnequalTimes
  MaxTime = 2
  Anchored = TRUE
  Closing = {w1}
  Flushing = FALSE
  Resends = FALSE
PROPERTY OrphanLapses
