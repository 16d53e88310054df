SPECIFICATION FairSpec
CONSTANTS
  Peer <- Four
  Audiences <- EndOrGroup
  Meetings <- Chain
  WallClock <- Skewed
  MaxLogical = 2
  MaxEvents = 2
CHECK_DEADLOCK FALSE
PROPERTIES DeliveredAndKnown ImplementsGroupLog
