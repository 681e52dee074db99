\* Two tasks that share a fetch, while robots.txt changes and fetches fail.
SPECIFICATION Spec
CONSTANTS
  robots = robots
  ai = ai
  c1 = c1
  Endpoint = {robots, ai}
  Robots = robots
  Caller = {c1, c2}
  Client = {k1}
  ClientOf <- MCClientOf
  StopOf <- MCStopOf
  Says <- MCSays
  Tagged = {robots}
  Directives <- MCMaxAge
  FAILURE_TTL = 1
  TIMEOUT = 1
  MaxTime = 4
INVARIANT TypeOK
INVARIANT NobodyForgotten
PROPERTY AllowedByRecentFiles
PROPERTY ForbiddenForAReason
\* The clock stops at MaxTime.
CHECK_DEADLOCK FALSE
