SPECIFICATION Spec
CONSTANTS
  Device = {0}
  Ptr = {p1, p2, p3, p4}
  Buffer = {b1, b2, b3}
  Size = {3, 4, 5}
  BigLimit = 2
  Slack = 2
  PoolAliased = TRUE
  Null = Null
INVARIANT HeldIsBacked
INVARIANT PoolIsExact
INVARIANT NoLeak
PROPERTY ImplementsDeviceMemory

