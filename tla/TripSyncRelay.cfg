SPECIFICATION FairSpec
CONSTANTS
  Peer <- Three
  DataRange <- Line
  BleRange <- FromFirst
  Audiences <- ToThird
  Policies <- DurableOrTransient
  Revisions = TRUE
  WallClock <- OneInstant
  MaxLogical = 4
  MaxEvents = 1
  MaxCrashes = 1
  MaxDrops = 1
CHECK_DEADLOCK FALSE
INVARIANTS PhaseHonest
PROPERTIES NeighboursReached
