SPECIFICATION Spec
CONSTANTS
  MaxElems = 8
  Key = {0, 1, 2}
  MAX_THRESH = 1
INVARIANTS
  SortedPermutation
  AccessesInBounds
  StackIsLogarithmic
  SearchFindsKey
PROPERTY
  Terminates
CHECK_DEADLOCK FALSE
