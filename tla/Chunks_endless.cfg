CONSTANTS
  Files = 1
  MaxUris = 1
  MaxKeys = 2
  MAX_SPARQL_OPTIONALS = 1
  Changes = 1
SPECIFICATION FairSpec
PROPERTIES
  QueryEnds
CHECK_DEADLOCK FALSE
