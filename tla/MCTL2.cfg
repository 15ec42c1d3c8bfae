CONSTANTS
  Thread = {1, 2}
  NumWords = 2
  NumLocks = 3
  Program <- MCProgram
  MaxTx = 2
  MaxClock = 4
SPECIFICATION Spec
INVARIANTS StrictlySerializable QuietIsClean
