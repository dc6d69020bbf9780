SPECIFICATION FairSpec
CONSTANTS
  c1 = c1
  c2 = c2
  f1 = f1
  None = None
  Conns <- TwoConns
  Fds <- OneFd
  PoolSize = 1
  FlushEvery = 1
  PipeCap = 1
  MaxFrames <- TwoAndOne
  MaxBatch = 2
INVARIANTS TypeOK RecvWakeup SendWakeup EchoFifo PoolsAgree MemoryOwned
PROPERTIES ImplementsEchoSafety ImplementsEcho
CHECK_DEADLOCK FALSE
