SPECIFICATION Spec
CONSTANTS
  e1 = e1
  e2 = e2
  e3 = e3
  e4 = e4
  k1 = k1
  k2 = k2
  Conn = {c1, c2, c3}
  NoConn = NoConn
  NoEvent = NoEvent
  Concurrency = 1
  MaxSize = 2
  MaxBytes = 2
  MaxDrops = 2
  MaxFails = 1
  Event = {e1, e2, e3}
  Bytes <- MCBytes
  NatsEvent = {e1, e2}
  NatsBytes <- MCNatsBytes
  NatsSettings <- MCNatsSettings
  Message = {e1, e2, e3}
  DeliveryBytes <- MCDeliveryBytes
  RabbitSettings <- MCRabbitSettings
  MaxCancels = 1
  Publication = {e1, e2, e3, e4}
  Sizes <- MCSizes
  MaxEntries = 2
  MaxBacklog = 3
  MaxClears = 1
  Key = {k1, k2}
  Runner = {h1}
  MaxVersion = 2
  IntakeSettings <- MCIntakeSettings
CHECK_DEADLOCK FALSE
INVARIANTS NoTrustAcrossGap DeleteWins HandledMeansApplied
PROPERTIES   SettledMeansApplied NothingForgotten BacklogExact
