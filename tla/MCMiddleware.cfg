\* Bodies of up to two chunks of two kinds in up to four messages, of which one
\* may be one chunk too long.
SPECIFICATION Spec
CONSTANTS
  Chunk = {a, b}
  MAX_BODY = 2
  MaxMessages = 4
INVARIANT MessagesInOrder
INVARIANT AgentVouches
\* A request is over at some time.
CHECK_DEADLOCK FALSE
