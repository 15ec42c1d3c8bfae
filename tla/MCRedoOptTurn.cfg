\* Three threads, on the schedule of TurnSpec.
CONSTANTS
  Thread = {0, 1, 2}
  NumWords = 2
  Program <- TwoStores
  MaxTx = 6
  RingSize = 4
  StatesSize = 3
  LogLimit = 2
  MaxReadTries = 1
  ProgramOf <- TwoStoresOf
  NumEntries = 4
  Restarted = {}
SPECIFICATION TurnSpec
INVARIANT RecoveryPointKept
CHECK_DEADLOCK FALSE
