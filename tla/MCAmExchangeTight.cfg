CONSTANTS
  NRanks = 2
  NWorkers = 1
  NDevices = 1
  Records = {v1, v2, v3, v4, v5}
  v1 = v1
  v2 = v2
  v3 = v3
  v4 = v4
  v5 = v5
  None = None
  Home <- TightHome
  Dest <- TightDest
  Expected <- MCExpected
  BatchRecords = 2
  PoolSize = 2
  MaxSends = 1
SPECIFICATION FairSpec
INVARIANTS
  NoPacketDeadlock
  PacketConservation
  BufferBounded
PROPERTY
  ImplementsDelivery
