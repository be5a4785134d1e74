SPECIFICATION Spec
CHECK_DEADLOCK FALSE
CONSTANTS
  r1 = r1
  r2 = r2
  c1 = c1
  c2 = c2
  None = None
  Layouts <- MCLayouts
  Texts <- MCTexts
  Patterns <- MCPatterns
  Namespaces <- MCNamespaces
  Keys <- MCKeys
  GlobKeys <- MCGlobKeys
  GlobPatterns <- MCGlobPatterns
  Sizes = {255, 256, 1023, 1024, 4095, 4096, 27262976}
  Squeezes <- MCSqueezes
  Tiers <- MCTiers
  PackedInputs <- MCPackedInputs
  Limits <- MCLimits
  Request = {r1, r2}
  Setups <- MCSetups
  Caller = {c1, c2}
  Requests <- MCRequests
  HoldMs = 1
  LeaseMs = 1
  RetentionMs = 1
  MaxCalls = 3
  MaxOperations = 3
  MaxHour = 1
INVARIANTS IndexKept PatternsExact RecordsExact WorkerCalls PaymentsExact
PROPERTIES CallsExact WorkerFresh SeatsExact
