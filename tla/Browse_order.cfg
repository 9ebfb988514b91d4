CONSTANTS
  Requests = 1
  MaxRows = 2
  Targets = {"playlist"}
  Skips = {0}
  G_MAXUINT = 15
  UntrackedEntries = FALSE
SPECIFICATION Spec
INVARIANTS
  PlaylistInOrder
CHECK_DEADLOCK FALSE
