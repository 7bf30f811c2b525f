CONSTANTS
  NRanks = 2
  NWorkers = 2
  NDevices = 2
  Records = {v1, v2, v3}
  v1 = v1
  v2 = v2
  v3 = v3
  v4 = v4
  v5 = v5
  None = None
  Home <- DeviceHome
  Dest <- DeviceDest
  Expected <- MCExpected
  BatchRecords = 2
  PoolSize = 4
  MaxSends = 1
SPECIFICATION FairSpec
INVARIANTS
  CompletionSound
  NoStrayMessage
PROPERTY
  Termination
