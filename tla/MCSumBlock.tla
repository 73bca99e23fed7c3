----------------------------- MODULE MCSumBlock ------------------------------
(* Small instances of SumBlock.                                             *)
EXTENDS SumBlock
=============================================================================
