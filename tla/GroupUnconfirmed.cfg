CONSTANTS
  Peer <- Three
  Founder <- Two
  MaxGroups = 2
  MaxNotes = 0
  MaxFaults = 0
SPECIFICATION Spec
INVARIANT MembersConfirmedGroup
CHECK_DEADLOCK FALSE
CONSTRAINT Ring
