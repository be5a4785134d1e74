SPECIFICATION Spec
CONSTANTS
  c1 = c1
  c2 = c2
  c3 = c3
  c4 = c4
  c5 = c5
  Call = {c1, c2, c3, c4}
  Bytes <- MCBytes
  MaxConcurrent = 2
  MaxQueued = 2
  MaxQueuedBytes = 2
  Load = {c1, c2, c3, c4, c5}
  LoadBytes <- MCLoadBytes
  MaxLoads = 2
  MaxWaiting = 2
  MaxWaitingBytes = 2
  User = {c1, c2, c3}
  FailureThreshold = 2
  CooldownMs = 2
  MaxEpoch = 6
CHECK_DEADLOCK FALSE
INVARIANT SlotsExact
PROPERTIES AnsweredTruly AdmissionKept ProbeDecides NeverStuck
