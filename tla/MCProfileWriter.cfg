CONSTANTS
  main = main
  helper = helper
  Threads = {main, helper}
  Main = main
  None = None
  Torn = Torn
  MaxPhases = 3
  MaxFailures = 2
  MaxCrashes = 1
SPECIFICATION FairSpec
CHECK_DEADLOCK FALSE
INVARIANTS
  Ledger
  FileIntact
  ReturnsWhenWritten
PROPERTIES
  DestructorEnds
  ImplementsLog
