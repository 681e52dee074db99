\* Three deliveries, two keys of which the directory lists one, room for two nonces.
SPECIFICATION Spec
CONSTANTS
  k1 = k1
  k2 = k2
  n1 = n1
  n2 = n2
  n3 = n3
  NoNonce = NoNonce
  Nonce = {n1, n2, n3}
  Key = {k1, k2}
  Listing = {{k1}, {k2}}
  Delivery = {d1, d2, d3}
  Request <- MCRequest
  MAXSIZE = 2
  DROP = 1
  SKEW = 1
  TTL = 2
  Latency = 1
  MaxTime = 4
SYMMETRY MCSymmetry
INVARIANT TypeOK
INVARIANT StoreBounded
INVARIANT NonceAcceptedOnce
INVARIANT RefusedForAnAcceptance
PROPERTY AcceptedKeyWasListed
PROPERTY RefusedKeyWasNotListed
\* The clock stops at MaxTime, and every delivery is made once.
CHECK_DEADLOCK FALSE
