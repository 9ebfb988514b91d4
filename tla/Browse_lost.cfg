CONSTANTS
  Requests = 1
  MaxRows = 2
  Targets = {"playlist"}
  Skips = {0}
  G_MAXUINT = 15
  UntrackedEntries = TRUE
SPECIFICATION FairSpec
PROPERTIES
  EveryCallAnswered
CHECK_DEADLOCK FALSE
