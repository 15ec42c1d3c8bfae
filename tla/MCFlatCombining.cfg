CONSTANTS
  Thread = {t1, t2, t3}
  MaxThreads = 3
  NoFunction = NoFunction
SPECIFICATION MCSpec
INVARIANTS
  CombTypeOK UniqueTID MaxTidCovers NeverFull MutualExclusion NoStaleFlag
  NoDanglingFunction ReadersSeeNoMutation
PROPERTIES ExactlyOnce RegistrationEnds WriterPreference UpdateReturns
