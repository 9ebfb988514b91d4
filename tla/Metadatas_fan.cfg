CONSTANTS
  MaxIds = 3
SPECIFICATION FairSpec
INVARIANTS
  TypeOK
  RemainingExact
  FreedByTheLast
  CompleteOrError
PROPERTIES
  EveryGetAnswered
  ImplementsContract
CHECK_DEADLOCK FALSE
