SPECIFICATION Spec
CONSTANTS
  Peer <- Two
  DataRange <- Mesh
  BleRange <- Mesh
  Audiences <- ToGroup
  Policies <- Durable
  Revisions = TRUE
  WallClock <- Skewed
  MaxLogical = 1
  MaxEvents = 2
  MaxCrashes = 1
  MaxDrops = 1
CHECK_DEADLOCK FALSE
INVARIANTS TypeOK SlotAgreement SenderHoldsOwn DigestExact AckSound ReplicaSound ViewSound CausalOrder
PROPERTIES ImplementsGroupLog
