SPECIFICATION MCSpec
CONSTANTS
  Vpages <- MCVpages
  Fanout = 2
  PtLevels = 3
  PteSlots = 1
  FirstPage = 1
  Populated = 12
  Shuffles <- MCShuffles
  PoolPages <- MCPoolPages
  Requests <- MCRequests
  PsclWays <- MCPsclWays
  MAX_READ = 3
  MAX_FILL = 3
  HIT_LATENCY = 0
  MinorFaultPenalty = 0
  RQ_SIZE = 1
  PtesPerBlock = 2
INVARIANTS
  WalkerSound MemoryExclusive PoolAddresses DramBanks DramRequests DramPlaces
CHECK_DEADLOCK FALSE
