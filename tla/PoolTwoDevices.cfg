SPECIFICATION Spec
CONSTANTS
  Device = {0, 1}
  Ptr = {p1, p2}
  Buffer = {b1, b2}
  Size = {1, 3, 4}
  BigLimit = 2
  Slack = 2
  PoolAliased = TRUE
  Null = Null
SYMMETRY Symmetry
INVARIANT FirstPoolIsAllocated

