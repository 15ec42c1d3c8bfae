CONSTANTS
  Thread = {0, 1}
  NumWords = 2
  Program <- MCProgram
  MaxTx = 2
  RingSize = 2
  StatesSize = 2
  LogLimit = 1
  MaxReadTries = 1
  ProgramOf <- MCProgramOf
  NumEntries = 4
  Restarted = {}
SPECIFICATION Spec
INVARIANT EveryUpdateApplied
CHECK_DEADLOCK FALSE
