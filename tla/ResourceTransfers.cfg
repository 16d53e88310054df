SPECIFICATION FairSpec
CONSTANTS
  Device <- Two
  Resource <- Two
  Content <- OneFile
  ContentOf <- SameContent
  Chunks = 2
  MaxFaults = 2
CHECK_DEADLOCK FALSE
INVARIANTS DiskSound ServedIsGood
PROPERTIES ProgressKept CancelledStays FirstTransfers
