\* Three commands, of any kinds, that fail and crash; keys for four attempts.
SPECIFICATION CommandSpec
CONSTANTS
  Process = {p1, p2, p3}
  Key = {k1, k2, k3, k4}
  None = None
SYMMETRY MCSymmetry
INVARIANT CommandTypeOK
INVARIANT FirstStartsAgree
 
 
INVARIANT RegisterTells
\* The commands end, or the keys run out.
CHECK_DEADLOCK FALSE
