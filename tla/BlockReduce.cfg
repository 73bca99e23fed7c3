SPECIFICATION FairSpec
CONSTANTS
  Kernels = {"block_reduce", "block_redude_sum", "rmsnorm_v0", "rmsnorm_v1"}
  B = 8
  W = 4
  C = 9
  Sizes <- MCSizes
INVARIANT NoRace
INVARIANT ReturnsSum
INVARIANT RowIsNormalised
INVARIANT LaneZeroIsNormalised
PROPERTY Terminates
