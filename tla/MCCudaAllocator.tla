--------------------------- MODULE MCCudaAllocator ---------------------------
(* Small instances of CudaAllocator.                                        *)
EXTENDS CudaAllocator, TLC

Symmetry == Permutations(Ptr) \cup Permutations(Buffer)
=============================================================================
