CONSTANTS
  t1 = t1
  t2 = t2
  None = None
  Thread <- const_Thread
  TestIndex <- const_TestIndex
  LocalKeys = 3
  NumBuckets = 2
  KeysPerBucket = 2
  MaxIterations = 1
  Ranks = 2
  NThreads = 3
  KeyRange = 3
  MaxKeys = 3
SPECIFICATION RegionSpec
INVARIANTS
  CountsOfIteration
  NoDataRace
  RanksAreCounts
CHECK_DEADLOCK FALSE
