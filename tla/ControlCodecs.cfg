CONSTANTS
  Peer <- Two
  Id <- TwoIds
  Packets <- OneAndTwo
  Skews <- UpToOne
  Ttl = 1
  AckTtl = 0
  AssemblyTtl = 0
  Capacity = 1
  Batch = 1
  Memory = 1
  MaxFaults = 1
SPECIFICATION FairSpec
INVARIANTS AcknowledgementsTrue AtMostOnce
PROPERTY ControlsArrive
CHECK_DEADLOCK FALSE
