\* Three words, so that one transaction leaves lines of several kinds behind:
\* untouched, stored to once, stored to again.  Objects of two sizes for one free list and of one for another, a pool that
\* six of the smallest blocks fill, and a request that never fits; a B-tree of
\* degree 2, where every second removal moves keys between nodes.
CONSTANTS
  NumPersists = 3
  Val = {0, 1}
  Zero = 0
  CreateStores <- MCCreateStores
  MaxSeq = 4
  MaxNesting = 2
  First = 2
  PoolEnd = 14
  Request = {1, 2, 3, 13}
  kMaxBlockSize = 5
  IntBits = 32
  Key = {1, 2, 3, 4, 5, 6, 7, 8, 9, 10}
  SmallKey = {1, 2, 3, 4, 5, 6, 7}
  minKeys = 1
  Node = {1, 2, 3, 4, 5, 6, 7, 8, 9, 10}
  ByReference = FALSE
  ZipKey = {1, 2, 3, 4}
  Rank = {0, 1, 2}
  RedBlackKey = {1, 2, 3, 4, 5, 6, 7, 8}
  HashKey = {1, 2, 3, 5, 9}
  Capacity = 2
  Item = {1, 2}
  NUM_ITEMS = 2
  MaxNodes = 3
SPECIFICATION MCSpec
INVARIANTS
  TypeOK RecoveryInv IdleIsDurable
  FreeListsSound Accounted ObjectsInPool HasRoom InShape
PROPERTIES AllOrNothing ImplementsStore ImplementsKeySet OrderKept
