SPECIFICATION Spec
CONSTANTS
  p1 = p1
  p2 = p2
  s1 = s1
  s2 = s2
  s3 = s3
  Proc = {p1, p2}
  Slot = {s1, s2}
  Calls = {"delete"}
  MaxVersion = 2
  Scenarios <- DeletingScenarios
SYMMETRY DeletingSymmetry
CHECK_DEADLOCK FALSE
INVARIANT DeleteReachesL2
