CONSTANTS
  Requests = 1
  MaxRows = 3
  Targets = {"invalid", "category", "root_all", "root", "music", "playlists", "playlist"}
  Skips = {0}
  G_MAXUINT = 15
  UntrackedEntries = FALSE
SPECIFICATION FairSpec
INVARIANTS
  ParentWaits
  DurationsAsked
PROPERTIES
  EveryCallAnswered
  EveryOperationSettles
  ImplementsContract
CHECK_DEADLOCK FALSE
