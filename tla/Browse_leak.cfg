CONSTANTS
  Requests = 1
  MaxRows = 1
  Targets = {"category", "root_all", "playlists"}
  Skips = {0}
  G_MAXUINT = 15
  UntrackedEntries = FALSE
SPECIFICATION Spec
INVARIANTS
  FinishedNotPending
CHECK_DEADLOCK FALSE
