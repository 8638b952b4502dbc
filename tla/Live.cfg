SPECIFICATION Spec
CONSTANTS
  switch = switch
  pool = pool
  core = core
  walker = walker
  vblock = vblock
  pblock = pblock
  tblock = tblock
  vpage = vpage
PROPERTIES
  RequestsServed EndsSimulation
CHECK_DEADLOCK FALSE
