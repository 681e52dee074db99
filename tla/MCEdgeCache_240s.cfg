\* One URL through one isolate and the edge, every request answered at once.
SPECIFICATION Spec
CONSTANTS
  directory = directory
  list = list
  Key = {directory}
  Exact = {directory}
  Isolate = {i1}
  Reader = {r1}
  Latency = 0
  EDGE_TTL = 3
  LIFETIME = 15
  MAX_ENTRIES = 2
  MAX_BYTES = 3
  MAX_BODY = 2
  Size <- MCSize
  MaxVersion = 1
  MaxTime = 5
SYMMETRY MCSymmetry
INVARIANT ValidityLeft
\* The clock stops at MaxTime.
CHECK_DEADLOCK FALSE
