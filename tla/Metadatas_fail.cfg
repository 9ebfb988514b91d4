CONSTANTS
  MaxIds = 2
SPECIFICATION Spec
INVARIANTS
  NoResultsWhenPlaylistsFail
CHECK_DEADLOCK FALSE
