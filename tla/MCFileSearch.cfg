SPECIFICATION Spec
CONSTANTS
  Items = 6
  Matching <- MCMatching
  Workers = 2
  MaxSearches = 2
INVARIANTS SearchIsSound
PROPERTIES SearchesEnd
CHECK_DEADLOCK FALSE
