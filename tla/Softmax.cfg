SPECIFICATION FairSpec
CONSTANTS
  Kernels = {"kernel1", "kernel2", "kernel3", "kernel4"}
  B = 4
  W = 2
  C = 5
INVARIANT TotalsAreWhole
INVARIANT SumsReadExponentials
INVARIANT RowIsNormalised
PROPERTY RowMovesForward
PROPERTY Terminates

