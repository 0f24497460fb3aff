CONSTANTS
  c1 = c1
  c2 = c2
  Conns <- MCConns
  Ids <- MCSharedIds
  IdOf <- MCSharedIdOf
  NoConn = NoConn
  MaxFrames = 1
  RingSize = 1
  QueueCap = 1
  ResyncEvery = 2
  ChanBuf = 1024
  ExternalCloser = FALSE
SPECIFICATION Spec
CHECK_DEADLOCK FALSE
INVARIANT ClientQueuesClosedOnce
