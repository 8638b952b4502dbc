SPECIFICATION MCSpec
CONSTANTS
  None = None
  Arch = {0, 1}
  Phys = {0, 1, 2, 3}
  MAX_WINDOW = 4
  ROB_SIZE = 4
  LQ_SIZE = 2
  SQ_SIZE = 2
  DISPATCH_BUFFER_SIZE = 2
  DECODE_BUFFER_SIZE = 2
  DIB_HIT_BUFFER_SIZE = 2
  BRANCH_MISPREDICT_PENALTY = 1
  DISPATCH_WIDTH = 2
  SCHEDULER_SIZE = 3
  EXEC_WIDTH = 2
  LQ_WIDTH = 1
  SQ_WIDTH = 2
  RETIRE_WIDTH = 2
  FETCH_WIDTH = 2
  DIB_INORDER_WIDTH = 2
  L1D_BANDWIDTH = 1
  SCHEDULING_LATENCY = 0
  EXEC_LATENCY = 0
  DECODE_LATENCY = 1
  DISPATCH_LATENCY = 1
  DIB_HIT_LATENCY = 0
  DIB_WAY = 2
  L1D_RQ_SIZE = 2
  L1D_WQ_SIZE = 1
  Uncertain = {2, 3}
INVARIANTS
  OneOwner SourcesStable WaitsForProducer PipelineAccounted MemoryOrder DataflowOrder FetchOrder TraceDelivered
PROPERTY RetiresInOrder
CHECK_DEADLOCK FALSE
