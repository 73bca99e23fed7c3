---------------------------- MODULE MCMatmulTiles -----------------------------
(* Small instances of MatmulTiles: mysgemm_v2 with a K that fits and one    *)
(* that does not, mysgemm_v4 with tall, wide and deep tiles, and shapes      *)
(* whose tiles do not fit the threads, or with fewer threads than a row.    *)
EXTENDS MatmulTiles

Shape(BM, BN, BK, TM, TN, K) ==
  [BM |-> BM, BN |-> BN, BK |-> BK, TM |-> TM, TN |-> TN, K |-> K]

MCShapes ==
  {Shape(2, 2, 2, 1, 1, 4), Shape(2, 2, 2, 1, 1, 3),
   Shape(4, 2, 2, 2, 1, 4), Shape(2, 4, 2, 1, 2, 4), Shape(2, 2, 4, 1, 1, 4),
   Shape(1, 3, 2, 1, 1, 2), Shape(1, 2, 3, 1, 1, 3), Shape(2, 4, 4, 1, 4, 4)}
=============================================================================
