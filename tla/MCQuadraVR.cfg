CONSTANTS
  NumWords = 3
  Root = {1}
  Val = {0, 1}
  Zero = 0
  CreateStores <- MCCreateStores
  MaxNesting = 2
  LogLimit = 1
  MaxSeq = 3
  Engine = {}
SPECIFICATION QuadraVRSpec
INVARIANT IdleIsDurable
