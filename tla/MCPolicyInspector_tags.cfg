\* A robots.txt that must be revalidated each time it is used.
SPECIFICATION Spec
CONSTANTS
  robots = robots
  ai = ai
  c1 = c1
  Endpoint = {robots, ai}
  Robots = robots
  Caller = {c1, c2}
  Client = {k1}
  ClientOf <- MCClientOf
  StopOf <- MCNeverStop
  Says <- MCSays
  Tagged = {robots}
  Directives <- MCNoCache
  FAILURE_TTL = 1
  TIMEOUT = 1
  MaxTime = 1
INVARIANT TagsMatch
\* The clock stops at MaxTime.
CHECK_DEADLOCK FALSE
