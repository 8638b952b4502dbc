CONSTANTS
  a = a
  b = b
  NumNodes = 1
  NumPools = 1
  PoolBase = 100
  Block = {a}
  SwitchQueue = 1
  PoolQueue = 1
  ReplicateWrites = FALSE
  RoundRobin = TRUE
  Target <- MCTarget
  MSHR_SIZE = 1
  RemoteQueueSize = 1
  WarmUp = {}
  MaxWrites <- MCMaxWrites
SPECIFICATION Spec
INVARIANTS
  NodeIngressBounded
