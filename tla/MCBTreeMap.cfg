CONSTANTS
  Key = {1, 2, 3, 4, 5}
  minKeys = 1
  Node = {1, 2, 3, 4, 5}
  ByReference = TRUE
SPECIFICATION SpecBTree
PROPERTY ImplementsSet
