\* Two processes start for the first time.
SPECIFICATION Spec
CONSTANTS
  Process = {p1, p2}
  Key = {k1, k2}
  None = None
SYMMETRY MCSymmetry
INVARIANT FirstStartsSucceed
CHECK_DEADLOCK FALSE
