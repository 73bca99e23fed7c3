---------------------------- MODULE MCBlockReduce -----------------------------
(* Small instances of BlockReduce.                                          *)
EXTENDS BlockReduce

(* Rows shorter than a warp, longer than a warp, and longer than the block; *)
(* the block reductions have no row.                                       *)
MCSizes ==
  [k \in Kernels |-> CASE k = "rmsnorm_v0" -> {3, 5}
                       [] k = "rmsnorm_v1" -> {3, 9}
                       [] OTHER -> {0}]
=============================================================================
