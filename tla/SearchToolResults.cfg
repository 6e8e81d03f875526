SPECIFICATION Spec
CONSTANTS
  Searches <- MCSearches
  Queries <- MCQueries
  QueryOf <- MCQueryOf
  MaxRetries = 3
  RequestAttempts = 2
  RestartLimit = 0
  NoOne = NoOne
INVARIANTS
  ResultsAreStored
CHECK_DEADLOCK FALSE
