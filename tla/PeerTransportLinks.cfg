SPECIFICATION Spec
CONSTANTS
  Peer <- Two
  MaxDials = 2
  MaxResets = 1
  MaxDrops = 1
CHECK_DEADLOCK FALSE
INVARIANTS OneConnection CoreKnows
