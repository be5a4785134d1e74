SPECIFICATION Spec
CONSTANTS
  s1 = s1
  s2 = s2
  k1 = k1
  k2 = k2
  c1 = c1
  c2 = c2
  c3 = c3
  Store = {s1, s2}
  Key = {k1, k2}
  Bytes = {3}
  OtherBytes = {2}
  HardCap = 6
  MinMemory = 2
  MaxEntries = 2
  MaxEntryBytes = 4
  HistoryBytes = 1
  MaxEvictionsPerWrite = 1
  EvictionsPerSample = 1
  PressureWindow = 1
  RecoveryWindow = 1
  CursorPeriod = 2
  Commands = {"eval", "getdel"}
  Clients <- MCClients
  MaxNames = 2
  Servers <- MCServers
  Errors <- MCErrors
  MaxDiscoveries = 2
  MaxReconnects = 1
  MaxInvalidations = 1
  Name = {1, 2, 3, 4}
  Ours = {1, 2, 3, 4}
  Under = {2, 3, 4}
  Matching = {2, 4}
  Late = {2}
  MaxScan = 2
  PageSize = 2
  MinPage = 1
  MaxPuts = 1
  Caller = {c1, c2, c3}
  Nobody = Nobody
  Settings <- MCSettings
CHECK_DEADLOCK FALSE
INVARIANTS BudgetKept NothingOlder OneFlight SetupExact  PurgeExact
PROPERTIES EverythingSettles
