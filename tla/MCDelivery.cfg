SPECIFICATION DeliverySpec
CONSTANTS
  MaxRecords = 3
  PipeCap = 1
  Host = "app"
  Key = "k1"
  KeyFiles <- MCKeyFiles
  NoFile = NoFile
  IngestKey = "k1"
  NoHost = NoHost
  Alerts <- MCAlerts
  MinRank = 3
  QueueCap = 1
  MaxPerMin = 1
  Window = 2
INVARIANTS
  NoSilentLoss
  StoredOnce
  FiledUnderOwner
  SuppressedCounted
  BurstBounded
PROPERTIES
  AgentFollowsShip
  QueueDrains
