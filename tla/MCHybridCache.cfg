SPECIFICATION Spec
CONSTANTS
  p1 = p1
  p2 = p2
  s1 = s1
  s2 = s2
  s3 = s3
  Proc = {p1, p2}
  Slot = {s1, s2, s3}
  Calls = {"get", "set", "delete", "fill"}
  MaxVersion = 2
  Scenarios <- MCScenarios
SYMMETRY HybridSymmetry
CHECK_DEADLOCK FALSE
INVARIANTS L1Fresh LocalDeleteReachesL2
