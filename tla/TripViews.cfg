CONSTANTS
  Peer <- Two
  Owner = 1
  Topics <- All
  Skews <- UpToOne
  Duration = 1
  MaxEvents = 4
  MaxTime = 1
  MaxFaults = 1
SPECIFICATION Spec
INVARIANTS ViewsSound PlacesConverge DocumentsConverge ConnectedTakeTurns RestartChangesNothing
CHECK_DEADLOCK FALSE
CONSTRAINT Bounds
