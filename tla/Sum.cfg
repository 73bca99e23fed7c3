SPECIFICATION FairSpec
CONSTANTS
  Kernels = {"v0", "v1", "v2", "v2_warp"}
  B = 8
  W = 4
INVARIANT NoRace
INVARIANT SegmentsAreSummed
INVARIANT Correct
INVARIANT V0KeepsFirst
PROPERTY Terminates

