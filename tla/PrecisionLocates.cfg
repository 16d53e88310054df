SPECIFICATION FairSpec
CONSTANTS
  Peer <- Two
  Id <- TwoIds
  Ttl = 1
  Cooldown = 1
  MaxTime = 1
  MaxSessions = 2
  MaxEvents = 2
CHECK_DEADLOCK FALSE
INVARIANTS RangingSound Spaced
PROPERTY SessionStarts
