----------------------------- MODULE MatmulTiles ------------------------------
(***************************************************************************)
(* One block of mysgemm_v4 of cuda_learn/matmul/matmul.cu (68-142), whose  *)
(* threads each do TM x TN elements of C from tiles of A and B in shared   *)
(* memory; mysgemm_v2 (24-63) is the shape BM = BN = BK, TM = TN = 1.      *)
(*                                                                         *)
(* External is the launch: as many threads as the kernel counts for itself *)
(* (thread_num), on a block of C that lies inside the matrix.  A cell of a *)
(* tile holds the inner index of the element loaded into it, and tmp the   *)
(* inner indexes of the products in the order they are added.              *)
(***************************************************************************)
EXTENDS Integers, Sequences

CONSTANT
  Shapes   \* the template arguments BM, BN, BK, TM, TN and the K of a launch

ASSUME ShapesAssumption ==
  /\ Shapes \subseteq [BM : Nat \ {0}, BN : Nat \ {0}, BK : Nat \ {0},
                       TM : Nat \ {0}, TN : Nat \ {0}, K : Nat \ {0}]
  /\ \A s \in Shapes : s.TM <= s.BM /\ s.TN <= s.BN

(* What is in a cell nobody loaded, or loaded from beyond the matrix.       *)
Junk == -1

VARIABLES
  shape,   \* the shape of this launch
  pc,      \* what each thread does next; the name of the tile while it loads
  base,    \* k of the outer loop, the same in all threads: where the tiles start
  i,       \* the counter of the inner loop each thread is in
  tile,    \* As and Bs
  stray,   \* the tiles some thread wrote outside of
  tmp      \* the sums of each thread's elements

vars == <<shape, pc, base, i, tile, stray, tmp>>

block_row_thread(s) == s.BN \div s.TN

block_col_thread(s) == s.BM \div s.TM

thread_num(s) == block_row_thread(s) * block_col_thread(s)

ThreadOf(s) == 0 .. thread_num(s) - 1

Thread == ThreadOf(shape)

Tile == {"As", "Bs"}

Height(x) == IF x = "As" THEN shape.BM ELSE shape.BK

Width(x) == IF x = "As" THEN shape.BK ELSE shape.BN

Cell(x) == (0 .. Height(x) - 1) \X (0 .. Width(x) - 1)

(* a_tile_stride and b_tile_stride.                                        *)
Stride(x) == thread_num(shape) \div Width(x)

(* Mutant of Row: b_tile_row = threadIdx.x / BK.                           *)
RowByBK(t, x) == t \div shape.BK + i[t]

(* The row and column of a tile a thread loads next.                       *)
Row(t, x) == t \div Width(x) + i[t]

Column(t, x) == t % Width(x)

(* The elements of a thread, counted from its corner ty, tx.               *)
Own == (0 .. shape.TM - 1) \X (0 .. shape.TN - 1)

ty(t) == (t \div block_row_thread(shape)) * shape.TM

tx(t) == (t % block_row_thread(shape)) * shape.TN

Init ==
  /\ shape \in Shapes
  /\ pc = [t \in Thread |-> "As"]
  /\ base = 0
  /\ i = [t \in Thread |-> 0]
  /\ tile = [x \in Tile |-> [c \in Cell(x) |-> Junk]]
  /\ stray = {}
  /\ tmp = [t \in Thread |-> [e \in Own |-> <<>>]]

Goto(t, label) == pc' = [pc EXCEPT ![t] = label] /\ i' = [i EXCEPT ![t] = 0]

(* The inner index of the element a thread reads into a cell: A moves along *)
(* its columns, B along its rows, and beyond K is other data.              *)
Source(t, x) ==
  LET k == base + (IF x = "As" THEN Column(t, x) ELSE Row(t, x))
  IN  IF k < shape.K THEN k ELSE Junk

(* A write outside a tile may land in the other one.                       *)
WriteOutside(x) ==
  /\ stray' = stray \cup {x}
  /\ \/ UNCHANGED tile
     \/ \E y \in Tile \ {x} : \E c \in Cell(y) : tile' = [tile EXCEPT ![y][c] = Junk]

(* Mutant of Load: it never steps beyond the last row.                     *)
LoadClamped(t) ==
  \E x \in Tile :
    /\ pc[t] = x
    /\ i[t] < Height(x)
    /\ i' = [i EXCEPT ![t] = IF @ + Stride(x) < Height(x) THEN @ + Stride(x) ELSE Height(x) - 1]
    /\ IF Row(t, x) < Height(x)
         THEN tile' = [tile EXCEPT ![x][<<Row(t, x), Column(t, x)>>] = Source(t, x)]
              /\ UNCHANGED stray
         ELSE WriteOutside(x)
    /\ UNCHANGED <<shape, pc, base, tmp>>

Load(t) ==
  \E x \in Tile :
    /\ pc[t] = x
    /\ i[t] < Height(x)
    /\ i' = [i EXCEPT ![t] = @ + Stride(x)]
    /\ IF Row(t, x) < Height(x)
         THEN tile' = [tile EXCEPT ![x][<<Row(t, x), Column(t, x)>>] = Source(t, x)]
              /\ UNCHANGED stray
         ELSE WriteOutside(x)
    /\ UNCHANGED <<shape, pc, base, tmp>>

(* Mutant of Loaded: one pass over the tile is enough.                     *)
LoadedOnce(t) ==
  \E x \in Tile :
    /\ pc[t] = x
    /\ i[t] > 0
    /\ Goto(t, IF x = "As" THEN "Bs" ELSE "wait")
    /\ UNCHANGED <<shape, base, tile, stray, tmp>>

Loaded(t) ==
  \E x \in Tile :
    /\ pc[t] = x
    /\ i[t] >= Height(x)
    /\ Goto(t, IF x = "As" THEN "Bs" ELSE "wait")
    /\ UNCHANGED <<shape, base, tile, stray, tmp>>

(* Mutant of TilesReady: no __syncthreads.                                 *)
TilesReadyEarly ==
  /\ \E t \in Thread : pc[t] = "wait" /\ pc' = [pc EXCEPT ![t] = "compute"]
  /\ UNCHANGED <<shape, base, i, tile, stray, tmp>>

(* The first __syncthreads: the tiles are there.                           *)
TilesReady ==
  /\ \A t \in Thread : pc[t] = "wait"
  /\ pc' = [t \in Thread |-> "compute"]
  /\ UNCHANGED <<shape, base, i, tile, stray, tmp>>

(* The product of two cells is a term of the result if they belong together. *)
Term(a, b) == IF a = b THEN a ELSE Junk

Compute(t) ==
  /\ pc[t] = "compute"
  /\ i[t] < shape.BK
  /\ tmp' = [tmp EXCEPT ![t] = [e \in Own |->
               Append(tmp[t][e], Term(tile["As"][<<ty(t) + e[1], i[t]>>],
                                      tile["Bs"][<<i[t], tx(t) + e[2]>>]))]]
  /\ i' = [i EXCEPT ![t] = @ + 1]
  /\ UNCHANGED <<shape, pc, base, tile, stray>>

(* Mutant of Computed: the last index may be left out.                     *)
ComputedEarly(t) ==
  /\ pc[t] = "compute"
  /\ i[t] >= shape.BK - 1
  /\ pc' = [pc EXCEPT ![t] = "turn"]
  /\ UNCHANGED <<shape, base, i, tile, stray, tmp>>

Computed(t) ==
  /\ pc[t] = "compute"
  /\ i[t] >= shape.BK
  /\ pc' = [pc EXCEPT ![t] = "turn"]
  /\ UNCHANGED <<shape, base, i, tile, stray, tmp>>

(* Mutant of TilesUsed: the outer loop stops before a partial tile.        *)
TilesUsedWhole ==
  /\ \A t \in Thread : pc[t] = "turn"
  /\ base' = base + shape.BK
  /\ pc' = [t \in Thread |-> IF base + 2 * shape.BK <= shape.K THEN "As" ELSE "store"]
  /\ i' = [t \in Thread |-> 0]
  /\ UNCHANGED <<shape, tile, stray, tmp>>

(* The second __syncthreads: the tiles are no longer needed.               *)
TilesUsed ==
  /\ \A t \in Thread : pc[t] = "turn"
  /\ base' = base + shape.BK
  /\ pc' = [t \in Thread |-> IF base + shape.BK < shape.K THEN "As" ELSE "store"]
  /\ i' = [t \in Thread |-> 0]
  /\ UNCHANGED <<shape, tile, stray, tmp>>

Store(t) ==
  /\ pc[t] = "store"
  /\ Goto(t, "done")
  /\ UNCHANGED <<shape, base, tile, stray, tmp>>

Done == \A t \in Thread : pc[t] = "done"

(* The kernel has ended.                                                   *)
Ended == Done /\ UNCHANGED vars

Step(t) == Load(t) \/ Loaded(t) \/ Compute(t) \/ Computed(t) \/ Store(t)

Next ==
  \/ \E t \in Thread : Step(t)
  \/ TilesReady
  \/ TilesUsed
  \/ Ended

Spec == Init /\ [][Next]_vars

(* The GPU runs every thread of a resident block until it ends or waits.    *)
FairSpec ==
  /\ Spec
  /\ \A t \in UNION {ThreadOf(s) : s \in Shapes} : WF_vars(t \in Thread /\ Step(t))
  /\ WF_vars(TilesReady)
  /\ WF_vars(TilesUsed)

-----------------------------------------------------------------------------
(* The variables keep their shape, and the loops their bounds.             *)
TypeOK ==
  /\ shape \in Shapes
  /\ pc \in [Thread -> Tile \cup {"wait", "compute", "turn", "store", "done"}]
  /\ base \in 0 .. shape.K + shape.BK
  /\ i \in [Thread -> Nat]
  /\ tile = [x \in Tile |-> tile[x]]
  /\ \A x \in Tile : tile[x] \in [Cell(x) -> (0 .. shape.K - 1) \cup {Junk}]
  /\ stray \subseteq Tile
  /\ tmp \in [Thread -> [Own -> Seq((0 .. shape.K - 1) \cup {Junk})]]

Divides(d, n) == n % d = 0

(* The threads cover both tiles in whole rows, and the block its elements.   *)
(* Nothing in the code asks it of the template arguments.                  *)
TilesFit ==
  /\ Divides(shape.TM, shape.BM)
  /\ Divides(shape.TN, shape.BN)
  /\ \A x \in Tile : Divides(Width(x), thread_num(shape)) /\ Stride(x) > 0
                     /\ Divides(Stride(x), Height(x))

Fits == TilesFit /\ Divides(shape.BK, shape.K)

Loading(t) == pc[t] \in Tile /\ i[t] < Height(pc[t])

(* No thread writes a cell of a tile while another has still to read it     *)
(* (the two barriers, matmul.cu:116, 130), and where the tiles fit no two   *)
(* threads write the same cell (matmul.cu:105-115).                        *)
NoRace ==
  \A t, u \in Thread :
    Loading(t) =>
      /\ pc[u] # "compute"
      /\ TilesFit /\ t # u /\ Loading(u) /\ pc[u] = pc[t] =>
           <<Row(t, pc[t]), Column(t, pc[t])>> # <<Row(u, pc[t]), Column(u, pc[t])>>

(* Where the tiles fit, no load misses its tile (matmul.cu:105-115).        *)
StaysInside == TilesFit => stray = {}

(* ... and the loads leave no cell out: when the products are added every    *)
(* cell of a tile holds the element of this round that belongs to it.      *)
TilesAreWhole ==
  TilesFit /\ (\E t \in Thread : pc[t] = "compute") =>
    \A x \in Tile : \A c \in Cell(x) :
      LET k == base + (IF x = "As" THEN c[2] ELSE c[1])
      IN  tile[x][c] = IF k < shape.K THEN k ELSE Junk

(* A K that is no multiple of BK spoils every element of the block: the     *)
(* kernels have no bound on their loads (matmul.cu:48-49, 107-114).        *)
RaggedIsWrong ==
  TilesFit /\ ~Fits => \A t \in Thread : pc[t] = "done" =>
    \A e \in Own : \E j \in DOMAIN tmp[t][e] : tmp[t][e][j] = Junk

(* With fewer threads than a tile is wide the stride is 0 and the block     *)
(* stays in its first loads (matmul.cu:92, 96, 105, 111).                  *)
EndlessNeverComputes ==
  (\E x \in Tile : Stride(x) = 0) => \A t \in Thread : pc[t] \in Tile

(* Exactly with the other shapes the block ends, those included whose tiles *)
(* do not fit or whose K is ragged.                                        *)
Terminates == []EndlessNeverComputes /\ ((\A x \in Tile : Stride(x) > 0) => <>Done)

-----------------------------------------------------------------------------
(* The thread that does an element of the block of C, and the element as    *)
(* that thread counts it.                                                  *)
Owner(c) == (c[1] \div shape.TM) * block_row_thread(shape) + c[2] \div shape.TN

Local(c) == <<c[1] % shape.TM, c[2] % shape.TN>>

(* As many threads as any block of Shapes has elements.                    *)
Grid ==
  UNION {(0 .. s.BM - 1) \X (0 .. s.BN - 1) : s \in Shapes}

Block == (0 .. shape.BM - 1) \X (0 .. shape.BN - 1)

Naive ==
  INSTANCE MatmulNaive
  WITH args <- [M |-> shape.BM, N |-> shape.BN, K |-> shape.K],
       tmp <- [c \in Grid |-> IF c \in Block THEN tmp[Owner(c)][Local(c)] ELSE <<>>],
       stored <- {c \in Grid : c \in Block /\ pc[Owner(c)] = "done"}

(* Where everything fits the block does for its part of C what mysgemm_v1   *)
(* does: every element gets the same products, in the same order, so that   *)
(* the results are equal to the last bit, and is written once, when its sum *)
(* is complete (matmul.cu:13-19 and 56-62, 121-140).                        *)
ImplementsNaive ==
  /\ Fits => Naive!Init
  /\ [][Fits => [Naive!Next]_(Naive!vars)]_vars
=============================================================================
