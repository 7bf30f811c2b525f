SPECIFICATION CountingSpec
CHECK_DEADLOCK FALSE
SYMMETRY MCSymmetry
CONSTANTS
  Threads = {t1, t2}
  worker_count = 2
  a = a
  b = b
  self = self
  Incoming = {a}
  Buffered = {b, self}
  Loopback = {self}
  record_count <- MCRecordCount
  MaxCalls = 2
INVARIANTS
  ProgressRecorded
