SPECIFICATION MCSpec
CONSTANTS
  PT_SET <- MCSets
  PT_WAY = 2
  C_SIG_MAX = 3
  Deltas <- MCDeltas
  Pages <- MCPages
  PageBlocks = 4
  SigLength = 2
  PtSetOf <- MCPtSet
  FILTER_SET <- MCFilter
  Quotient <- MCQuotient
  Remainder <- MCRemainder
  FILL_THRESHOLD = 60
  PF_THRESHOLD = 25
  GLOBAL_COUNTER_MAX = 15
  MAX_GHR_ENTRY = 2
  ST_WAY = 2
  MSHR_SIZE = 5
  MaxCalls = 6
  Invalid = Invalid
INVARIANT CountersAgree
PROPERTIES
  EvictsInOrder PredictsRight 
CHECK_DEADLOCK FALSE
