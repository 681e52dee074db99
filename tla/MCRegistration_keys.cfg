\* Four requests at one moment: every interleaving of the handlers.
SPECIFICATION Spec
CONSTANTS
  Slot = {s1, s2, s3, s4}
  Address <- OneAddress
  Limit = 4
  DayLength = 1
  MaxTime = 0
  Kid = {k1, k2}
  Other = k2
  Site = {u, v}
  ForbiddenSite = {v}
  Body <- MCBody
  TTL = 1
SYMMETRY MCSymmetry
INVARIANT TypeOK
INVARIANT SingleUse
INVARIANT EveryPublishedKeyProven
INVARIANT RowIsOneSubmit
\* Every request may have been answered, and slots are not reused.
CHECK_DEADLOCK FALSE
