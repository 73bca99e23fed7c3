--------------------------- MODULE MCTensorMemory ----------------------------
(* Small instances of TensorMemory.                                         *)
EXTENDS TensorMemory, TLC

Symmetry ==
  Permutations(Tensor) \cup Permutations(Handle) \cup Permutations(Buffer)
    \cup Permutations(Addr)
=============================================================================
