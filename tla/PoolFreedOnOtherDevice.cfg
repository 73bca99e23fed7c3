SPECIFICATION Spec
CONSTANTS
  Device = {0, 1}
  Ptr = {p1, p2, p3}
  Buffer = {b1, b2, b3}
  Size = {3}
  BigLimit = 2
  Slack = 2
  PoolAliased = TRUE
  Null = Null
INVARIANT PooledIsAllocated

