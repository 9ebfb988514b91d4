CONSTANTS
  Songs = {1}
  Videos = {2}
  Keys = {"last-played", "duration"}
  MaxKeys = 2
  Disks = {{1, 2}}
  Requests = 1
  Touches = 0
SPECIFICATION Spec
PROPERTIES
  UnsetKeysReported
CHECK_DEADLOCK FALSE
