CONSTANTS
  NRanks = 2
  NDevices = 2
  Workers = {0, 1}
  MaxPhases = 3
  Plan <- const_Plan
  Types = {"key", "edge"}
  SizeOf <- const_SizeOf
  RecordType <- const_RecordType
  UsePacket <- const_UsePacket
  BatchRequests = {0, 3, 5}
  MaxBcopy = 4
  Restart = {2}
  LeaveActive = {2}
  Recycles = TRUE
  MaxFailures = 3
SPECIFICATION Spec
INVARIANTS
  PhasesApart
  NothingLeft
  ReceiveBuffersGoBack
  ClearLosesNothing
PROPERTIES
  BuffersAreCurrent
  AllPhasesEnd
CHECK_DEADLOCK FALSE
