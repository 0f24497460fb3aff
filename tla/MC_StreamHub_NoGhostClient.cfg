CONSTANTS
  c1 = c1
  c2 = c2
  Conns <- MCConns
  Ids <- MCConns
  IdOf <- MCIdOf
  NoConn = NoConn
  MaxFrames = 2
  RingSize = 1
  QueueCap = 1
  ResyncEvery = 2
  ChanBuf = 1024
  ExternalCloser = FALSE
SPECIFICATION Spec
CHECK_DEADLOCK FALSE
SYMMETRY MCSymmetry
INVARIANT NoGhostClient
