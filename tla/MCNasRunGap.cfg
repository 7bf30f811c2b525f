SPECIFICATION Spec
CHECK_DEADLOCK FALSE
CONSTANTS
  Jobs <- GapJobs
  MIN_PROCS = 1
  MAX_PROCS = 4
  TOTAL_KEYS = 20
  WorkBufferSize = 20
  MAX_KEY = 8
  KeysPerBucket = 2
  MAX_ITERATIONS = 2
  TestIndex <- MCTestIndex
INVARIANT
  LargestKeySent
