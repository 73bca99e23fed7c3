SPECIFICATION Spec
CONSTANTS
  Kernels = {"kernel4"}
  B = 4
  W = 2
  C = 3
INVARIANT Correct

