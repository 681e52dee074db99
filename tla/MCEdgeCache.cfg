\* Two URLs that do not fit into memory together, two requests at a time, one
\* registration, and time for a copy to grow old at the edge and in memory.
SPECIFICATION Spec
CONSTANTS
  directory = directory
  list = list
  Key = {directory, list}
  Exact = {directory, list}
  Isolate = {i1}
  Reader = {r1, r2}
  Latency = 0
  EDGE_TTL = 1
  LIFETIME = 5
  MAX_ENTRIES = 2
  MAX_BYTES = 3
  MAX_BODY = 2
  Size <- MCSize
  MaxVersion = 1
  MaxTime = 3
SYMMETRY MCSymmetry
INVARIANT TypeOK
INVARIANT MemoryBounded
INVARIANT PurgeEffective
 
 
\* The clock stops at MaxTime.
CHECK_DEADLOCK FALSE
