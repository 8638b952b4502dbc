SPECIFICATION MCSpec
CONSTANTS
  vblock = vblock
  vother = vother
  Zero = Zero
  pblock = pblock
  tblock = tblock
  vpage = vpage
  core = core
  walker = walker
  Upper = {core}
  Block = {vblock, vother, pblock, tblock}
  PageOf <- L2CPageOf
  Physical <- L2CPhysical
  SetOf <- L2CSetOf
  Remote = {}
  NUM_WAY = 2
  MSHR_SIZE = 2
  PQ_SIZE = 1
  HIT_LATENCY = 1
  FILL_LATENCY = 1
  MAX_TAG = 1
  MAX_FILL = 1
  match_offset_bits = FALSE
  RemoteSize = 1
  Slots <- L2CSlots
  Asks <- L2CAsks
  Walker = {}
  Translated <- L2CTranslated
  Virtual <- L2CVirtual
  MaxWrites = 2
  Prefetches = {pblock}
  QueueSize = 1
INVARIANT L1DNoWriteLost
CHECK_DEADLOCK FALSE
