CONSTANTS
  Files = 3
  MaxUris = 3
  MaxKeys = 6
  MAX_SPARQL_OPTIONALS = 2
  Changes = 1
  FileName <- MCFileName
  Pictures <- MCPictures
  Filters <- MCFilters
  Depth <- MCDepth
  Comparisons <- MCComparisons
  Libraries <- MCLibraries
  Complete <- MCComplete
  Queries <- MCQueries
  Uri <- MCUri
  Pathname <- MCPathname
SPECIFICATION CatalogFairSpec
INVARIANTS
  CatalogTypeOK
  ColumnsOwnKeys
  AggregatesFit
  RowsOwnValues
  AsIfAtOnce
  ContainersExact
  ClipsExact
  RowIsItsMetadata
  ChildcountCounts
  RowsAreThoseAsked
PROPERTIES
  QueryIsAnswered
CHECK_DEADLOCK FALSE
