SPECIFICATION FairSpec
CONSTANTS
  Peer <- Two
  MaxDials = 3
  MaxResets = 0
  MaxDrops = 2
CHECK_DEADLOCK FALSE
PROPERTY Reconnect
