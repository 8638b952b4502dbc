CONSTANTS
  a = a
  b = b
  NumNodes = 1
  NumPools = 2
  PoolBase = 100
  Block = {a}
  SwitchQueue = 1
  PoolQueue = 1
  ReplicateWrites = TRUE
  RoundRobin = FALSE
  Target <- MCTarget
  MSHR_SIZE = 1
  RemoteQueueSize = 1
  WarmUp = {0}
  MaxWrites <- MCMaxWrites
SPECIFICATION Spec
INVARIANTS
  AllPoolsOrNone
