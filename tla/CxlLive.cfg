CONSTANTS
  a = a
  b = b
  NumNodes = 2
  NumPools = 1
  PoolBase = 100
  Block = {a}
  SwitchQueue = 0
  PoolQueue = 1
  ReplicateWrites = FALSE
  RoundRobin = TRUE
  Target <- MCTarget
  MSHR_SIZE = 1
  RemoteQueueSize = 1
  WarmUp = {0}
  MaxWrites <- NoWrites
SPECIFICATION FairSpec
PROPERTIES
  ReadsAnswered
  ResetsSeen
