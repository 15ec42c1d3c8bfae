CONSTANTS
  Thread = {0, 1}
  NumWords = 2
  Program <- MCProgram
  MaxTx = 2
  RingSize = 2
  StatesSize = 2
  LogLimit = 2
  MaxReadTries = 1
  ProgramOf <- MCProgramOf
  NumEntries = 4
  Restarted = {2}
SPECIFICATION Spec
INVARIANT RecoveredIsCurrent
CHECK_DEADLOCK FALSE
