CONSTANTS
  Thread = {t1, t2}
  MaxThreads = 2
  NoFunction = NoFunction
  NumPersists = 2
  Zero = 0
  CreateStores <- MCCreateStores
  MaxSeq = 4
  Modulus = 3
  Function <- MCFunction
SYMMETRY ThreadSymmetry
SPECIFICATION Spec
INVARIANT ReadsAreDurable
PROPERTY DurablyLinearizable
