SPECIFICATION FairSpec
CONSTANTS
  Searches <- MCSearches
  Queries <- MCQueries
  QueryOf <- MCQueryOf
  MaxRetries = 3
  RequestAttempts = 2
  RestartLimit = 2
  NoOne = NoOne
INVARIANTS
  TypeOK
  WritersTakeTurns
  CacheIsDurable
PROPERTIES
  OneConnection
  SearchReturns
CHECK_DEADLOCK FALSE
