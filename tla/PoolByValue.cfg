SPECIFICATION Spec
CONSTANTS
  Device = {0, 1}
  Ptr = {p1, p2, p3}
  Buffer = {b1, b2, b3}
  Size = {3, 4}
  BigLimit = 2
  Slack = 2
  PoolAliased = FALSE
  Null = Null
INVARIANT NoLeak
INVARIANT FreedOnce

