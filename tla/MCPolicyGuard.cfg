\* Two tasks share the guard of an origin; the hops of one of them are followed:
\* redirects to and from two other origins, one of which is not signed for.
SPECIFICATION ClientSpec
CONSTANTS
  Request = {r1, r2}
  Caller = {r1}
  Origin = {site, far, foreign}
  Secure = {site, far, foreign}
  Allowed = {site, far}
  Site = site
  None = None
  EXPIRES = 1
  REDIRECTS = 1
  Delay = {0, 1, 3}
  MIN_DELAY = 0
  MAX_DELAY = 2
  LATE = 1
  Closing = 2
  MaxTime = 8
INVARIANT ClientTypeOK
INVARIANT NoGap
 
PROPERTY SignedHopsFit
PROPERTY OtherHopsBare
PROPERTY RequestsEnd
PROPERTY KeepsPace
\* The clock stops at MaxTime.
CHECK_DEADLOCK FALSE
