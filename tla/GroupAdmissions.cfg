CONSTANTS
  Peer <- Two
  Founder <- Two
  MaxGroups = 2
  MaxNotes = 2
  MaxFaults = 1
SPECIFICATION FairSpec
INVARIANTS MembershipSound LogsKeepApart
PROPERTIES ConfirmedInTheEnd EventsArrive
CHECK_DEADLOCK FALSE
CONSTRAINT Bounds
