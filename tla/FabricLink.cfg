CONSTANTS
  switch = switch
  pool = pool
  Port <- MCPort
  Peer <- MCPeer
  NumPackets = 6
  Source <- MCSource
  Bytes <- MCBytes
  QueueSize <- MCQueueSize
SPECIFICATION MCSpec
INVARIANTS
  TypeOK CreditConservation AtMostOnce QueueOnTime
PROPERTIES
  NoCreditClamped ImplementsWindow QueueDelivers
