SPECIFICATION Spec
CONSTANTS
  Peer <- Two
  CallId <- TwoCalls
  InRange <- Everyone
  OfferTtl = 1
  RetryTtl = 0
  MaxTime = 1
  MaxLosses = 1
  MaxDrops = 1
  MaxHints = 1
  MaxRestarts = 1
CHECK_DEADLOCK FALSE
INVARIANTS AnsweredCallIsShared RealtimeWhileEstablished HangUpReachesPeer ActiveHasConnection
CONSTRAINT Apart
