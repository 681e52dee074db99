\* Five agents whose rows may tie, two to a page, pages one tick old.
SPECIFICATION Spec
CONSTANTS
  Agent = {1, 2, 3, 4, 5}
  LIMIT = 2
  Age = 1
  Delay = 1
  MaxTime = 3
INVARIANT TypeOK
INVARIANT PagesInOrder
INVARIANT WalkComplete
\* The clock stops at MaxTime.
CHECK_DEADLOCK FALSE
