\* Three requests while challenges expire and a day ends.
SPECIFICATION Spec
CONSTANTS
  Slot = {s1, s2, s3}
  Address <- ThreeAddresses
  Limit = 1
  DayLength = 2
  MaxTime = 2
  Kid = {k1, k2}
  Other = k1
  Site = {u}
  ForbiddenSite = {}
  Body <- TimeBody
  TTL = 1
SYMMETRY MCSymmetry
INVARIANT ChallengeHonoured
INVARIANT BudgetHolds
INVARIANT RefusedOnlyOverBudget
PROPERTY PendingChallengesSafe
\* Every request may have been answered, and slots are not reused.
CHECK_DEADLOCK FALSE
