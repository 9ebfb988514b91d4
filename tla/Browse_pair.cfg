CONSTANTS
  Requests = 2
  MaxRows = 2
  Targets = {"invalid", "category", "root_all", "root", "playlist"}
  Skips = {0, 1}
  G_MAXUINT = 15
  UntrackedEntries = TRUE
SPECIFICATION Spec
INVARIANTS
  TypeOK
  PendingExact
  RemainingCountExact
  DeliveredInOrder
  AllDelivered
  NeverMoreThanAsked
  PagesDisjoint
PROPERTIES
  NothingAfterCancel
  NothingAfterLast
CHECK_DEADLOCK FALSE
