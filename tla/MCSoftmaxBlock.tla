--------------------------- MODULE MCSoftmaxBlock ----------------------------
(* Small instances of SoftmaxBlock.                                         *)
EXTENDS SoftmaxBlock
=============================================================================
