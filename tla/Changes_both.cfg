CONSTANTS
  Songs = {1, 2}
  Videos = {3}
  Keys = {"artist", "last-played", "duration"}
  MaxKeys = 2
  Disks = {{}, {1, 3}, {1, 2, 3}}
  Requests = 2
  Touches = 1
SPECIFICATION FairSpec
INVARIANTS
  TypeOK
  DestroyHonest
  SignalMeansChange
  LastSetWins
PROPERTIES
  SetHonest
  EveryCallAnswered
CHECK_DEADLOCK FALSE
