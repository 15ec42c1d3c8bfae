CONSTANTS
  Thread = {0, 1}
  NumWords = 2
  NumStores = 2
  Program <- MCProgram
  MaxTx = 3
SPECIFICATION Spec
INVARIANTS StrictlySerializable DurableAtReturn
PROPERTY LockFree
CHECK_DEADLOCK FALSE
