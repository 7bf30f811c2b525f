SPECIFICATION Spec
CHECK_DEADLOCK FALSE
CONSTANTS
  Jobs <- MCJobs
  MIN_PROCS = 1
  MAX_PROCS = 4
  TOTAL_KEYS = 20
  size_of_buffers = 20
  MAX_KEY = 8
  KeysPerBucket = 2
  MAX_ITERATIONS = 2
  test_index_array <- MCTestIndex
  MPI_ERR_OTHER = 15
INVARIANT KeysArrive
PROPERTY EndsWithRightVerdict
