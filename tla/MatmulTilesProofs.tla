-------------------------- MODULE MatmulTilesProofs ---------------------------
(***************************************************************************)
(* Proofs about MatmulTiles, for every set of shapes: the loads race with   *)
(* nothing and, where the tiles fit, fill them and stay inside; a block     *)
(* whose depth divides K implements mysgemm_v1, one whose depth does not is *)
(* wrong in every element, and one with too few threads never computes.    *)
(* No block is ever stuck, and its steps run out.                          *)
(***************************************************************************)
EXTENDS MatmulTiles, Remainders, TLAPS

(* The template arguments of a launch are positive numbers, ...            *)
LEMMA ShapeType ==
  ASSUME shape \in Shapes
  PROVE  /\ shape.BM \in Nat \ {0} /\ shape.BN \in Nat \ {0} /\ shape.BK \in Nat \ {0}
         /\ shape.TM \in Nat \ {0} /\ shape.TN \in Nat \ {0} /\ shape.K \in Nat \ {0}
         /\ shape.TM <= shape.BM /\ shape.TN <= shape.BN
BY ShapesAssumption DEF ShapesAssumption

(* ... a quotient times its divisor fits, ...                              *)
LEMMA QuotientFits ==
  ASSUME NEW n \in Nat, NEW d \in Nat \ {0}, d <= n
  PROVE  n \div d \in Nat \ {0} /\ (n \div d) * d <= n
<1> DEFINE q == n \div d
<1>1. q \in Nat /\ n % d \in 0 .. d - 1 /\ n = q * d + (n % d)
  BY Division
<1> HIDE DEF q
<1>2. q # 0
  <2>1. ASSUME q = 0 PROVE FALSE
    <3>1. n = 0 * d + (n % d)
      BY <1>1, <2>1
    <3>2. QED
      BY <1>1, <3>1
  <2>2. QED
    BY <2>1
<1>3. q * d <= n
  BY <1>1
<1>4. QED
  BY <1>1, <1>2, <1>3 DEF q

(* ... so the block has threads, and tiles to load.                        *)
LEMMA Counts ==
  ASSUME shape \in Shapes
  PROVE  /\ block_row_thread(shape) \in Nat \ {0}
         /\ block_row_thread(shape) * shape.TN <= shape.BN
         /\ block_col_thread(shape) \in Nat \ {0}
         /\ block_col_thread(shape) * shape.TM <= shape.BM
         /\ thread_num(shape) \in Nat \ {0}
         /\ 0 \in Thread
         /\ \A x \in Tile : Height(x) \in Nat \ {0} /\ Width(x) \in Nat \ {0}
         /\ \A x \in Tile : Stride(x) \in Nat
<1> USE ShapeType
<1> DEFINE r == block_row_thread(shape)
           c == block_col_thread(shape)
<1>1. r \in Nat \ {0} /\ r * shape.TN <= shape.BN
  BY QuotientFits DEF block_row_thread
<1>2. c \in Nat \ {0} /\ c * shape.TM <= shape.BM
  BY QuotientFits DEF block_col_thread
<1>3. thread_num(shape) = r * c
  BY DEF thread_num
<1> HIDE DEF r, c
<1>4. r * c \in Nat \ {0}
  BY <1>1, <1>2
<1>5. \A x \in Tile : Height(x) \in Nat \ {0} /\ Width(x) \in Nat \ {0}
  BY DEF Tile, Height, Width
<1>6. \A x \in Tile : Stride(x) \in Nat
  BY <1>3, <1>4, <1>5, Division DEF Stride
<1>7. 0 \in Thread
  BY <1>3, <1>4 DEF Thread, ThreadOf
<1>8. QED
  BY <1>1, <1>2, <1>3, <1>4, <1>5, <1>6, <1>7 DEF r, c

(* A thread of the block, and the place of its elements.                   *)
LEMMA Places ==
  ASSUME shape \in Shapes, NEW t \in Thread
  PROVE  /\ t \in Nat /\ t < thread_num(shape)
         /\ \A x \in Tile : /\ Column(t, x) \in 0 .. Width(x) - 1
                            /\ t \div Width(x) \in Nat
                            /\ t = (t \div Width(x)) * Width(x) + Column(t, x)
         /\ \A e \in Own : /\ ty(t) + e[1] \in 0 .. shape.BM - 1
                           /\ tx(t) + e[2] \in 0 .. shape.BN - 1
<1> USE ShapeType
<1>1. t \in Nat /\ t < thread_num(shape)
  BY Counts DEF Thread, ThreadOf
<1>2. \A x \in Tile : /\ Column(t, x) \in 0 .. Width(x) - 1
                      /\ t \div Width(x) \in Nat
                      /\ t = (t \div Width(x)) * Width(x) + Column(t, x)
  BY <1>1, Counts, Division DEF Column
<1> DEFINE r == block_row_thread(shape)
           c == block_col_thread(shape)
           y == t \div r
           x == t % r
<1>3. /\ r \in Nat \ {0} /\ r * shape.TN <= shape.BN
      /\ c \in Nat \ {0} /\ c * shape.TM <= shape.BM
      /\ t < r * c
  BY <1>1, Counts DEF thread_num
<1>4. y \in Nat /\ x \in 0 .. r - 1 /\ t = y * r + x
  BY <1>1, <1>3, Division
<1>5. /\ ty(t) = y * shape.TM
      /\ tx(t) = x * shape.TN
  BY DEF ty, tx
<1> HIDE DEF r, c, x, y
<1>6. y < c
  <2>1. ASSUME y >= c PROVE FALSE
    <3>1. y * r >= c * r
      BY <1>3, <1>4, <2>1
    <3>2. QED
      BY <1>3, <1>4, <3>1
  <2>2. QED
    BY <1>3, <1>4, <2>1
<1>7. y * shape.TM + shape.TM <= c * shape.TM
  BY <1>3, <1>4, <1>6, MultipleGap
<1>8. x * shape.TN + shape.TN <= r * shape.TN
  BY <1>3, <1>4, MultipleGap
<1>9. y * shape.TM \in Nat /\ x * shape.TN \in Nat
  BY <1>4
<1>10. ASSUME NEW e \in Own
       PROVE  ty(t) + e[1] \in 0 .. shape.BM - 1 /\ tx(t) + e[2] \in 0 .. shape.BN - 1
  <2>1. e[1] \in 0 .. shape.TM - 1 /\ e[2] \in 0 .. shape.TN - 1
    BY DEF Own
  <2> DEFINE p == y * shape.TM
             q == x * shape.TN
  <2> HIDE DEF p, q
  <2>2. /\ p \in Nat /\ q \in Nat
        /\ p + shape.TM <= shape.BM /\ q + shape.TN <= shape.BN
    BY <1>3, <1>7, <1>8, <1>9 DEF p, q
  <2>3. p + e[1] \in 0 .. shape.BM - 1 /\ q + e[2] \in 0 .. shape.BN - 1
    BY <2>1, <2>2
  <2>4. QED
    BY <1>5, <2>3 DEF p, q
<1>11. QED
  BY <1>1, <1>2, <1>10

(* A launch has one shape, and what is counted from it stays.               *)
LEMMA ShapeStays == [Next]_vars => shape' = shape
BY DEF Next, Step, Load, Loaded, Compute, Computed, Store, TilesReady, TilesUsed, Ended, vars

LEMMA CountsStay ==
  ASSUME shape' = shape
  PROVE  /\ Thread' = Thread /\ Own' = Own
         /\ \A x : Height(x)' = Height(x) /\ Width(x)' = Width(x) /\ Cell(x)' = Cell(x)
         /\ \A x : Stride(x)' = Stride(x)
         /\ TilesFit' = TilesFit
BY DEF Thread, Own, Height, Width, Cell, Stride, TilesFit
-----------------------------------------------------------------------------
(* Between two barriers all threads load, or all compute; a round starts    *)
(* below K.                                                                *)
Rounds ==
  /\ \/ \A t \in Thread : pc[t] \in Tile \cup {"wait"}
     \/ \A t \in Thread : pc[t] \in {"compute", "turn"}
     \/ \A t \in Thread : pc[t] \in {"store", "done"}
  /\ \A t \in Thread : pc[t] \notin {"store", "done"} => base < shape.K

Value == (0 .. shape.K - 1) \cup {Junk}

(* What a thread loads is a value, and lands in a cell of its tile unless   *)
(* it is beyond the last row.                                              *)
LEMMA SourceType ==
  ASSUME TypeOK, NEW t \in Thread, NEW x \in Tile
  PROVE  /\ Source(t, x) \in Value
         /\ Row(t, x) \in Nat
         /\ Row(t, x) < Height(x) => <<Row(t, x), Column(t, x)>> \in Cell(x)
<1>1. shape \in Shapes /\ i[t] \in Nat /\ base \in Nat
  BY ShapeType DEF TypeOK
<1>2. Column(t, x) \in 0 .. Width(x) - 1 /\ t \div Width(x) \in Nat
  BY <1>1, Places
<1>3. Row(t, x) \in Nat /\ Column(t, x) \in Nat
  BY <1>1, <1>2, Counts DEF Row
<1>4. Source(t, x) \in Value
  BY <1>1, <1>3, ShapeType DEF Source, Value
<1>5. Row(t, x) < Height(x) => <<Row(t, x), Column(t, x)>> \in Cell(x)
  BY <1>1, <1>2, <1>3, Counts DEF Cell
<1>6. QED
  BY <1>3, <1>4, <1>5

LEMMA TileType ==
  ASSUME TypeOK, NEW x \in Tile, NEW c \in Cell(x), NEW v \in Value,
         tile' = [tile EXCEPT ![x][c] = v], shape' = shape
  PROVE  /\ tile' = [y \in Tile |-> tile'[y]]
         /\ \A y \in Tile : tile'[y] \in [Cell(y) -> Value]
         /\ tile'[x] = [tile[x] EXCEPT ![c] = v]
         /\ \A y \in Tile \ {x} : tile'[y] = tile[y]
<1>1. /\ tile = [y \in Tile |-> tile[y]]
      /\ \A y \in Tile : tile[y] \in [Cell(y) -> Value]
  BY DEF TypeOK, Value
<1> DEFINE f == [tile[x] EXCEPT ![c] = v]
<1>2. f \in [Cell(x) -> Value]
  BY <1>1
<1> HIDE DEF f
<1>3. tile' = [tile EXCEPT ![x] = f]
  BY DEF f
<1>4. tile' = [y \in Tile |-> IF y = x THEN f ELSE tile[y]]
  BY <1>1, <1>3
<1>5. tile'[x] = f /\ \A y \in Tile \ {x} : tile'[y] = tile[y]
  BY <1>4
<1>6. tile' = [y \in Tile |-> tile'[y]]
  BY <1>4
<1>7. \A y \in Tile : tile'[y] \in [Cell(y) -> Value]
  BY <1>1, <1>2, <1>5
<1>8. QED
  BY <1>5, <1>6, <1>7 DEF f

LEMMA LoadType ==
  ASSUME TypeOK, Rounds, NEW t \in Thread, Load(t), shape' = shape
  PROVE  TypeOK' /\ Rounds'
<1>1. PICK x \in Tile :
        /\ pc[t] = x
        /\ i' = [i EXCEPT ![t] = @ + Stride(x)]
        /\ IF Row(t, x) < Height(x)
             THEN tile' = [tile EXCEPT ![x][<<Row(t, x), Column(t, x)>>] = Source(t, x)]
                  /\ UNCHANGED stray
             ELSE WriteOutside(x)
        /\ UNCHANGED <<shape, pc, base, tmp>>
  BY DEF Load
<1>2. /\ tile' = [y \in Tile |-> tile'[y]]
      /\ \A y \in Tile : tile'[y] \in [Cell(y) -> Value]
      /\ stray' \subseteq Tile
  <2>1. CASE Row(t, x) < Height(x)
    <3>1. /\ tile' = [tile EXCEPT ![x][<<Row(t, x), Column(t, x)>>] = Source(t, x)]
          /\ stray' = stray /\ shape' = shape
      BY <1>1, <2>1
    <3>2. <<Row(t, x), Column(t, x)>> \in Cell(x) /\ Source(t, x) \in Value
      BY <2>1, SourceType
    <3>3. QED
      BY <3>1, <3>2, TileType DEF TypeOK
  <2>2. CASE ~(Row(t, x) < Height(x))
    <3>1. CASE UNCHANGED tile
      BY <1>1, <2>2, <3>1 DEF WriteOutside, TypeOK, Value
    <3>2. ASSUME NEW y \in Tile \ {x}, NEW c \in Cell(y),
                 tile' = [tile EXCEPT ![y][c] = Junk]
          PROVE  /\ tile' = [z \in Tile |-> tile'[z]]
                 /\ \A z \in Tile : tile'[z] \in [Cell(z) -> Value]
      BY <3>2, TileType DEF Value
    <3>3. stray' \subseteq Tile
      BY <1>1, <2>2 DEF WriteOutside, TypeOK
    <3>4. QED
      BY <1>1, <2>2, <3>1, <3>2, <3>3 DEF WriteOutside
  <2>3. QED
    BY <2>1, <2>2
<1>3. Stride(x) \in Nat /\ shape \in Shapes
  BY Counts DEF TypeOK
<1>4. i' \in [Thread -> Nat]
  BY <1>1, <1>3 DEF TypeOK
<1>5. TypeOK'
  BY <1>1, <1>2, <1>4, CountsStay DEF TypeOK, Value
<1>6. Rounds'
  BY <1>1, CountsStay DEF Rounds
<1>7. QED
  BY <1>5, <1>6

LEMMA ComputeType ==
  ASSUME TypeOK, Rounds, NEW t \in Thread, Compute(t), shape' = shape
  PROVE  TypeOK' /\ Rounds'
<1>1. shape \in Shapes /\ i[t] \in 0 .. shape.BK - 1
  BY ShapeType DEF TypeOK, Compute
<1>2. ASSUME NEW e \in Own
      PROVE  /\ tile["As"][<<ty(t) + e[1], i[t]>>] \in Value
             /\ tile["Bs"][<<i[t], tx(t) + e[2]>>] \in Value
  <2>1. <<ty(t) + e[1], i[t]>> \in Cell("As") /\ <<i[t], tx(t) + e[2]>> \in Cell("Bs")
    BY <1>1, Places DEF Cell, Height, Width
  <2>2. tile["As"] \in [Cell("As") -> Value] /\ tile["Bs"] \in [Cell("Bs") -> Value]
    BY DEF TypeOK, Tile, Value
  <2>3. QED
    BY <2>1, <2>2
<1> DEFINE new(e) == Append(tmp[t][e], Term(tile["As"][<<ty(t) + e[1], i[t]>>],
                                            tile["Bs"][<<i[t], tx(t) + e[2]>>]))
<1>3. ASSUME NEW e \in Own PROVE new(e) \in Seq(Value)
  <2>1. Term(tile["As"][<<ty(t) + e[1], i[t]>>], tile["Bs"][<<i[t], tx(t) + e[2]>>]) \in Value
    BY <1>2 DEF Term, Value
  <2>2. tmp[t][e] \in Seq(Value)
    BY DEF TypeOK, Value
  <2>3. QED
    BY <2>1, <2>2
<1>4. /\ tmp' = [tmp EXCEPT ![t] = [e \in Own |-> new(e)]]
      /\ i' = [i EXCEPT ![t] = @ + 1]
      /\ UNCHANGED <<shape, pc, base, tile, stray>>
  BY DEF Compute
<1> HIDE DEF new
<1>5. tmp' \in [Thread -> [Own -> Seq(Value)]]
  BY <1>3, <1>4 DEF TypeOK, Value
<1>6. TypeOK'
  BY <1>1, <1>4, <1>5, CountsStay DEF TypeOK, Value
<1>7. Rounds'
  BY <1>4, CountsStay DEF Rounds
<1>8. QED
  BY <1>6, <1>7

LEMMA MatmulTypes == Spec => [](TypeOK /\ Rounds)
<1>1. Init => TypeOK /\ Rounds
  <2> SUFFICES ASSUME Init PROVE TypeOK /\ Rounds
    OBVIOUS
  <2>1. shape \in Shapes
    BY DEF Init
  <2>2. /\ pc \in [Thread -> Tile] /\ i \in [Thread -> Nat]
        /\ base \in 0 .. shape.K + shape.BK /\ base < shape.K
        /\ stray \subseteq Tile
    BY <2>1, ShapeType DEF Init, Tile
  <2>3. /\ tile = [x \in Tile |-> tile[x]]
        /\ \A x \in Tile : tile[x] \in [Cell(x) -> Value]
    BY DEF Init, Value
  <2>4. tmp \in [Thread -> [Own -> Seq(Value)]]
    BY DEF Init
  <2>5. TypeOK
    BY <2>1, <2>2, <2>3, <2>4 DEF TypeOK, Value
  <2>6. QED
    BY <2>2, <2>5 DEF Rounds, Tile
<1>2. ASSUME TypeOK, Rounds, [Next]_vars
      PROVE  TypeOK' /\ Rounds'
  <2>0. shape' = shape /\ shape \in Shapes
    BY <1>2, ShapeStays DEF TypeOK
  <2>1. ASSUME NEW t \in Thread, Load(t) PROVE TypeOK' /\ Rounds'
    BY <1>2, <2>0, <2>1, LoadType
  <2>2. ASSUME NEW t \in Thread, Loaded(t) PROVE TypeOK' /\ Rounds'
    <3>1. /\ pc[t] \in Tile
          /\ pc' = [pc EXCEPT ![t] = IF pc[t] = "As" THEN "Bs" ELSE "wait"]
          /\ i' = [i EXCEPT ![t] = 0]
          /\ UNCHANGED <<shape, base, tile, stray, tmp>>
      BY <2>2 DEF Loaded, Goto
    <3>2. TypeOK'
      BY <1>2, <2>0, <3>1, CountsStay DEF TypeOK, Tile
    <3>3. Rounds'
      BY <1>2, <2>0, <3>1, CountsStay DEF Rounds, Tile, TypeOK
    <3>4. QED
      BY <3>2, <3>3
  <2>3. ASSUME NEW t \in Thread, Compute(t) PROVE TypeOK' /\ Rounds'
    BY <1>2, <2>0, <2>3, ComputeType
  <2>4. ASSUME NEW t \in Thread, Computed(t) PROVE TypeOK' /\ Rounds'
    <3>1. TypeOK'
      BY <1>2, <2>0, <2>4, CountsStay DEF Computed, TypeOK
    <3>2. Rounds'
      BY <1>2, <2>0, <2>4, CountsStay DEF Computed, Rounds, Tile, TypeOK
    <3>3. QED
      BY <3>1, <3>2
  <2>5. ASSUME NEW t \in Thread, Store(t) PROVE TypeOK' /\ Rounds'
    <3>1. TypeOK'
      BY <1>2, <2>0, <2>5, CountsStay DEF Store, Goto, TypeOK
    <3>2. Rounds'
      BY <1>2, <2>0, <2>5, CountsStay DEF Store, Goto, Rounds, Tile, TypeOK
    <3>3. QED
      BY <3>1, <3>2
  <2>6. CASE TilesReady
    <3>1. TypeOK'
      BY <1>2, <2>0, <2>6, CountsStay DEF TilesReady, TypeOK
    <3>2. Rounds'
      BY <1>2, <2>0, <2>6, Counts, CountsStay DEF TilesReady, Rounds, Tile
    <3>3. QED
      BY <3>1, <3>2
  <2>7. CASE TilesUsed
    <3>1. base < shape.K /\ base \in Nat /\ shape.BK \in Nat /\ shape.K \in Nat
      <4>1. 0 \in Thread /\ pc[0] = "turn"
        BY <2>0, <2>7, Counts DEF TilesUsed
      <4>2. shape.BK \in Nat /\ shape.K \in Nat
        BY <2>0, ShapeType
      <4>3. QED
        BY <1>2, <4>1, <4>2 DEF Rounds, TypeOK
    <3>2. TypeOK'
      <4>1. base' \in 0 .. shape.K + shape.BK
        BY <2>7, <3>1 DEF TilesUsed
      <4>2. QED
        BY <1>2, <2>0, <2>7, <4>1, CountsStay DEF TilesUsed, TypeOK, Tile
    <3>3. Rounds'
      BY <1>2, <2>0, <2>7, <3>1, CountsStay DEF TilesUsed, Rounds, Tile
    <3>4. QED
      BY <3>2, <3>3
  <2>8. CASE UNCHANGED vars
    BY <1>2, <2>0, <2>8, CountsStay DEF vars, TypeOK, Rounds
  <2>9. QED
    BY <1>2, <2>1, <2>2, <2>3, <2>4, <2>5, <2>6, <2>7, <2>8 DEF Next, Step, Ended
<1>3. QED
  BY <1>1, <1>2, PTL DEF Spec

(* The variables keep their types, whatever the shapes.                    *)
THEOREM MatmulTypeCorrect == Spec => []TypeOK
BY MatmulTypes, PTL

(* A stride of 0 leaves the block in the loop that has it.                 *)
Stuck ==
  (\E x \in Tile : Stride(x) = 0) =>
    \A t \in Thread : /\ pc[t] \in Tile
                      /\ Stride("As") = 0 => pc[t] = "As"
                      /\ Stride(pc[t]) = 0 => i[t] = 0

(* A block with fewer threads than a tile is wide never computes, for every *)
(* such shape.                                                             *)
THEOREM NarrowBlocksNeverCompute == Spec => []EndlessNeverComputes
<1>1. Init => Stuck
  BY DEF Init, Stuck, Tile
<1>2. ASSUME TypeOK, Rounds, Stuck, [Next]_vars
      PROVE  Stuck'
  <2>0. /\ shape' = shape /\ shape \in Shapes /\ 0 \in Thread
        /\ \A x \in Tile : Height(x) \in Nat \ {0} /\ Stride(x) \in Nat
    BY <1>2, ShapeStays, Counts DEF TypeOK
  <2>1. Thread' = Thread /\ \A x : Stride(x)' = Stride(x)
    BY <2>0, CountsStay
  <2> SUFFICES ASSUME \E x \in Tile : Stride(x) = 0
               PROVE  \A t \in Thread : /\ pc'[t] \in Tile
                                        /\ Stride("As") = 0 => pc'[t] = "As"
                                        /\ Stride(pc'[t]) = 0 => i'[t] = 0
    BY <2>1 DEF Stuck
  <2>2. \A t \in Thread : /\ pc[t] \in Tile
                          /\ Stride("As") = 0 => pc[t] = "As"
                          /\ Stride(pc[t]) = 0 => i[t] = 0
    BY <1>2 DEF Stuck
  <2>3. ASSUME NEW t \in Thread, Load(t), NEW u \in Thread
        PROVE  /\ pc'[u] \in Tile
               /\ Stride("As") = 0 => pc'[u] = "As"
               /\ Stride(pc'[u]) = 0 => i'[u] = 0
    <3>1. pc' = pc /\ i' = [i EXCEPT ![t] = @ + Stride(pc[t])]
      BY <2>3 DEF Load
    <3>2. Stride(pc[u]) = 0 => i'[u] = i[u]
      BY <1>2, <2>0, <2>2, <3>1 DEF TypeOK
    <3>3. QED
      BY <2>2, <3>1, <3>2
  <2>4. ASSUME NEW t \in Thread, Loaded(t), NEW u \in Thread
        PROVE  /\ pc'[u] \in Tile
               /\ Stride("As") = 0 => pc'[u] = "As"
               /\ Stride(pc'[u]) = 0 => i'[u] = 0
    <3>1. /\ i[t] >= Height(pc[t])
          /\ pc' = [pc EXCEPT ![t] = IF pc[t] = "As" THEN "Bs" ELSE "wait"]
          /\ i' = [i EXCEPT ![t] = 0]
      BY <2>4 DEF Loaded, Goto
    <3>2. Stride(pc[t]) # 0
      BY <2>0, <2>2, <3>1
    <3>3. pc[t] = "As" /\ Stride("As") # 0
      BY <2>2, <3>2 DEF Tile
    <3>4. QED
      BY <1>2, <2>2, <3>1, <3>3 DEF TypeOK, Tile
  <2>5. ASSUME NEW t \in Thread, Step(t), NEW u \in Thread
        PROVE  /\ pc'[u] \in Tile
               /\ Stride("As") = 0 => pc'[u] = "As"
               /\ Stride(pc'[u]) = 0 => i'[u] = 0
    <3>1. Load(t) \/ Loaded(t)
      BY <2>2, <2>5 DEF Step, Compute, Computed, Store, Tile
    <3>2. QED
      BY <2>3, <2>4, <2>5, <3>1
  <2>6. ~TilesReady /\ ~TilesUsed /\ ~Ended
    BY <2>0, <2>2 DEF TilesReady, TilesUsed, Ended, Done, Tile
  <2>7. CASE UNCHANGED vars
    BY <2>2, <2>7 DEF vars
  <2>8. QED
    BY <1>2, <2>5, <2>6, <2>7 DEF Next
<1>3. Stuck => EndlessNeverComputes
  BY DEF Stuck, EndlessNeverComputes
<1>4. QED
  BY <1>1, <1>2, <1>3, MatmulTypes, PTL DEF Spec
-----------------------------------------------------------------------------
(* Where the tiles fit: thread_num is whole rows of a tile, and a tile is   *)
(* whole strides, so that a thread is in the row below the stride that its *)
(* number gives it.                                                        *)
LEMMA Fitting ==
  ASSUME shape \in Shapes, TilesFit, NEW x \in Tile
  PROVE  /\ Stride(x) \in Nat \ {0} /\ Height(x) \in Nat /\ Height(x) % Stride(x) = 0
         /\ \A t \in Thread : t \div Width(x) \in 0 .. Stride(x) - 1
         /\ \A c \in Cell(x) : /\ c[1] \in Nat /\ c[2] \in Nat
                               /\ c[1] % Stride(x) \in 0 .. Stride(x) - 1
                               /\ (c[1] % Stride(x)) * Width(x) + c[2] \in Thread
<1> DEFINE w == Width(x)
           s == Stride(x)
           n == thread_num(shape)
<1>1. /\ w \in Nat \ {0} /\ s \in Nat \ {0} /\ n \in Nat \ {0}
      /\ Height(x) \in Nat /\ Height(x) % s = 0 /\ n % w = 0
  BY Counts DEF TilesFit, Divides
<1>2. n = s * w
  <2>1. n = (n \div w) * w + (n % w) /\ n \div w \in Nat
    BY <1>1, Division
  <2>2. QED
    BY <1>1, <2>1 DEF Stride
<1>3. ASSUME NEW t \in Thread PROVE t \div w \in 0 .. s - 1
  <2> DEFINE y == t \div w
             c == Column(t, x)
  <2>1. t < n /\ y \in Nat /\ c \in 0 .. w - 1 /\ t = y * w + c
    BY Places
  <2> HIDE DEF w, s, n, y, c
  <2>2. y < s
    <3>1. ASSUME y >= s PROVE FALSE
      <4>1. y * w >= s * w
        BY <1>1, <2>1, <3>1
      <4>2. QED
        BY <1>1, <1>2, <2>1, <4>1
    <3>2. QED
      BY <1>1, <2>1, <3>1
  <2>3. QED
    BY <1>1, <2>1, <2>2 DEF y
<1>4. ASSUME NEW c \in Cell(x)
      PROVE  /\ c[1] \in Nat /\ c[2] \in Nat
             /\ c[1] % s \in 0 .. s - 1
             /\ (c[1] % s) * w + c[2] \in Thread
  <2>1. c[1] \in Nat /\ c[2] \in 0 .. w - 1
    BY <1>1 DEF Cell
  <2> DEFINE r == c[1] % s
  <2>2. r \in 0 .. s - 1
    BY <1>1, <2>1, Division
  <2> HIDE DEF w, s, r
  <2>3. r * w + w <= s * w
    BY <1>1, <2>2, MultipleGap
  <2>4. r * w \in Nat
    BY <1>1, <2>2
  <2>5. r * w + c[2] \in Nat /\ r * w + c[2] < n
    BY <1>1, <1>2, <2>1, <2>3, <2>4
  <2>6. r * w + c[2] \in Thread
    BY <1>1, <2>5 DEF Thread, ThreadOf
  <2>7. QED
    BY <2>1, <2>2, <2>6 DEF r
<1>5. QED
  BY <1>1, <1>3, <1>4

(* The thread that loads a cell.                                           *)
Loader(x, c) == (c[1] % Stride(x)) * Width(x) + c[2]

(* A thread that is in a whole number of strides loads the cell of its own  *)
(* row and column next, inside the tile.                                   *)
LEMMA NextCell ==
  ASSUME TypeOK, TilesFit, NEW t \in Thread, NEW x \in Tile,
         i[t] % Stride(x) = 0, i[t] < Height(x)
  PROVE  /\ Row(t, x) < Height(x)
         /\ Row(t, x) % Stride(x) = t \div Width(x)
         /\ <<Row(t, x), Column(t, x)>> \in Cell(x)
         /\ Loader(x, <<Row(t, x), Column(t, x)>>) = t
<1> DEFINE s == Stride(x)
           h == Height(x)
           y == t \div Width(x)
<1>1. /\ shape \in Shapes /\ i[t] \in Nat
      /\ s \in Nat \ {0} /\ h \in Nat /\ h % s = 0 /\ y \in 0 .. s - 1
  BY Fitting DEF TypeOK
<1>2. Row(t, x) = y + i[t]
  BY DEF Row
<1> HIDE DEF s, h, y
<1>3. PICK p \in Nat : i[t] = p * s
  BY <1>1, Quotient DEF s
<1>4. PICK q \in Nat : h = q * s
  BY <1>1, Quotient
<1>5. p < q
  <2>1. ASSUME p >= q PROVE FALSE
    <3>1. p * s >= q * s
      BY <1>1, <2>1
    <3>2. QED
      BY <1>1, <1>3, <1>4, <3>1 DEF h
  <2>2. QED
    BY <2>1
<1>6. p * s + s <= q * s
  BY <1>1, <1>5, MultipleGap
<1>7. Row(t, x) < h
  BY <1>1, <1>2, <1>3, <1>4, <1>6
<1>8. Row(t, x) = p * s + y /\ (p * s + y) % s = y
  BY <1>1, <1>2, <1>3, Remainder
<1>9. <<Row(t, x), Column(t, x)>> \in Cell(x)
  BY <1>7, SourceType DEF h
<1>10. t = y * Width(x) + Column(t, x)
  BY <1>1, Places DEF y
<1>11. QED
  BY <1>7, <1>8, <1>9, <1>10 DEF Loader, h, s, y

(* What a thread has behind it in a round.                                 *)
Past(t, x, r) ==
  \/ pc[t] \in {"wait", "compute", "turn"}
  \/ pc[t] = "Bs" /\ x = "As"
  \/ pc[t] = x /\ r < i[t]

Whole(x, c) ==
  LET k == base + (IF x = "As" THEN c[2] ELSE c[1])
  IN  IF k < shape.K THEN k ELSE Junk

(* The cells a thread has behind it hold their elements of this round.     *)
Filled ==
  TilesFit =>
    /\ stray = {}
    /\ \A t \in Thread : pc[t] \in Tile => i[t] % Stride(pc[t]) = 0
    /\ \A x \in Tile : \A c \in Cell(x) :
         Past(Loader(x, c), x, c[1]) => tile[x][c] = Whole(x, c)

(* One pass of a thread adds the cell it has just loaded, and no other.    *)
LEMMA OneCell ==
  ASSUME TypeOK, TilesFit, NEW t \in Thread, NEW x \in Tile,
         i[t] % Stride(x) = 0, i[t] < Height(x),
         NEW c \in Cell(x), Loader(x, c) = t, c[1] < i[t] + Stride(x)
  PROVE  c[1] < i[t] \/ c = <<Row(t, x), Column(t, x)>>
<1> DEFINE s == Stride(x)
           w == Width(x)
           y == t \div w
           r == Row(t, x)
           k == Column(t, x)
           a == c[1]
           b == c[2]
           n == i[t]
<1>1. /\ s \in Nat \ {0} /\ w \in Nat \ {0} /\ n \in Nat /\ y \in 0 .. s - 1
      /\ a \in Nat /\ b \in 0 .. w - 1 /\ a % s \in 0 .. s - 1
      /\ k \in 0 .. w - 1 /\ t = y * w + k
      /\ r = y + n /\ r % s = y /\ r \in Nat
      /\ c = <<a, b>>
  <2>1. shape \in Shapes /\ i[t] \in Nat
    BY DEF TypeOK
  <2>2. s \in Nat \ {0} /\ w \in Nat \ {0} /\ y \in 0 .. s - 1
    BY <2>1, Fitting, Counts
  <2>3. a \in Nat /\ b \in 0 .. w - 1 /\ a % s \in 0 .. s - 1 /\ c = <<a, b>>
    BY <2>1, Fitting DEF Cell
  <2>4. k \in 0 .. w - 1 /\ t = y * w + k
    BY <2>1, Places
  <2>5. r = y + n /\ r % s = y /\ r \in Nat
    BY NextCell, SourceType DEF Row
  <2>6. QED
    BY <2>1, <2>2, <2>3, <2>4, <2>5
<1>2. t = (a % s) * w + b
  BY DEF Loader
<1>3. a % s = y /\ b = k
  <2> DEFINE z == a % s
  <2>1. z \in Nat /\ t = z * w + b
    BY <1>1, <1>2
  <2>2. (z * w + b) \div w = z /\ (y * w + k) \div w = y
    BY <1>1, <2>1, WholePart
  <2>3. (z * w + b) % w = b /\ (y * w + k) % w = k
    BY <1>1, <2>1, Remainder
  <2> HIDE DEF z, y, k, w, b
  <2>4. z = y /\ b = k
    BY <1>1, <2>1, <2>2, <2>3
  <2>5. QED
    BY <2>4 DEF z
<1>4. a < n + s
  OBVIOUS
<1> HIDE DEF s, w, y, r, k, a, b, n
<1>5. a <= r
  <2>1. a < r + s /\ a % s = r % s
    BY <1>1, <1>3, <1>4
  <2>2. QED
    BY <1>1, <2>1, ResidueGap
<1>6. ASSUME a >= n PROVE r <= a
  <2>1. r < a + s /\ r % s = a % s
    BY <1>1, <1>3, <1>6
  <2>2. QED
    BY <1>1, <2>1, ResidueGap
<1>7. a < n \/ (a = r /\ b = k)
  BY <1>1, <1>3, <1>5, <1>6
<1>8. QED
  BY <1>1, <1>7 DEF a, n, r, k

LEMMA FilledLoad ==
  ASSUME TypeOK, Rounds, Filled, TypeOK', TilesFit, shape' = shape,
         NEW t \in Thread, Load(t)
  PROVE  Filled'
<1> DEFINE x == pc[t]
           n == i[t]
           c0 == <<Row(t, x), Column(t, x)>>
<1>1. /\ x \in Tile /\ n < Height(x)
      /\ i' = [i EXCEPT ![t] = n + Stride(x)]
      /\ n % Stride(x) = 0 /\ shape \in Shapes /\ n \in Nat
  BY DEF Load, Filled, TypeOK
<1>2. /\ Row(t, x) < Height(x) /\ c0 \in Cell(x) /\ Loader(x, c0) = t
  BY <1>1, NextCell
<1>3. /\ tile' = [tile EXCEPT ![x][c0] = Source(t, x)]
      /\ UNCHANGED <<shape, pc, base, stray>>
  BY <1>2 DEF Load
<1>4. Stride(x) \in Nat \ {0}
  BY <1>1, Fitting
<1>5. /\ Source(t, x) = Whole(x, c0)
      /\ Source(t, x) \in Value
  BY <1>1, SourceType DEF Source, Whole
<1>6. /\ tile'[x] = [tile[x] EXCEPT ![c0] = Source(t, x)]
      /\ \A y \in Tile \ {x} : tile'[y] = tile[y]
  BY <1>1, <1>2, <1>3, <1>5, TileType
<1>7. tile[x] \in [Cell(x) -> Value]
  BY <1>1 DEF TypeOK, Value
<1>8. (n + Stride(x)) % Stride(x) = 0
  BY <1>1, <1>4, StepKeepsRemainder
<1>9. /\ Thread' = Thread /\ TilesFit' /\ \A y : Cell(y)' = Cell(y) /\ Stride(y)' = Stride(y)
      /\ \A y, c : Loader(y, c)' = Loader(y, c) /\ Whole(y, c)' = Whole(y, c)
  BY <1>3, CountsStay DEF Loader, Whole, Stride, Width
<1>10. ASSUME NEW y \in Tile, NEW c \in Cell(y), Past(Loader(y, c), y, c[1])'
       PROVE  tile'[y][c] = Whole(y, c)
  <2>1. Loader(y, c) \in Thread
    BY <1>1, Fitting DEF Loader
  <2>2. CASE y = x /\ c = c0
    BY <1>2, <1>5, <1>6, <1>7, <2>2
  <2>3. CASE ~(y = x /\ c = c0)
    <3>1. tile'[y][c] = tile[y][c]
      BY <1>6, <1>7, <2>3
    <3>2. Past(Loader(y, c), y, c[1])
      <4>1. CASE Loader(y, c) # t
        BY <1>1, <1>3, <1>9, <1>10, <2>1, <4>1 DEF Past, TypeOK
      <4>2. CASE Loader(y, c) = t /\ y # x
        BY <1>3, <1>9, <1>10, <4>2 DEF Past
      <4>3. CASE Loader(y, c) = t /\ y = x
        <5>1. c[1] < n + Stride(x)
          BY <1>1, <1>3, <1>9, <1>10, <4>3 DEF Past, TypeOK, Tile
        <5>2. c[1] < n
          BY <1>1, <2>3, <4>3, <5>1, OneCell
        <5>3. QED
          BY <4>3, <5>2 DEF Past
      <4>4. QED
        BY <4>1, <4>2, <4>3
    <3>3. QED
      BY <3>1, <3>2 DEF Filled
  <2>4. QED
    BY <2>2, <2>3
<1>11. \A u \in Thread : pc'[u] \in Tile => i'[u] % Stride(pc'[u]) = 0
  BY <1>1, <1>3, <1>8 DEF Filled, TypeOK
<1>12. QED
  BY <1>3, <1>9, <1>10, <1>11 DEF Filled

LEMMA FilledStep ==
  ASSUME TypeOK, TypeOK', Rounds, Filled, [Next]_vars
  PROVE  Filled'
<1>0. shape' = shape /\ shape \in Shapes
  BY ShapeStays DEF TypeOK
<1>1. /\ Thread' = Thread /\ TilesFit' = TilesFit
      /\ \A y : Cell(y)' = Cell(y) /\ Stride(y)' = Stride(y)
      /\ \A y, c : Loader(y, c)' = Loader(y, c)
      /\ base' = base => \A y, c : Whole(y, c)' = Whole(y, c)
  BY <1>0, CountsStay DEF Loader, Whole, Stride, Width
<1> SUFFICES ASSUME TilesFit PROVE Filled'
  BY <1>1 DEF Filled
<1>2. /\ stray = {}
      /\ \A t \in Thread : pc[t] \in Tile => i[t] % Stride(pc[t]) = 0
      /\ \A x \in Tile : \A c \in Cell(x) :
           Past(Loader(x, c), x, c[1]) => tile[x][c] = Whole(x, c)
  BY DEF Filled
<1>3. \A x \in Tile : \A c \in Cell(x) :
        Loader(x, c) \in Thread /\ c[1] \in Nat /\ c[1] < Height(x)
  BY <1>0, Fitting, Counts DEF Loader, Cell
<1>4. \A x \in Tile : 0 % Stride(x) = 0
  <2>1. ASSUME NEW x \in Tile PROVE 0 % Stride(x) = 0
    <3>1. Stride(x) \in Nat \ {0}
      BY <1>0, Fitting
    <3>2. (0 * Stride(x)) % Stride(x) = 0 /\ 0 * Stride(x) = 0
      BY <3>1, Multiple
    <3>3. QED
      BY <3>2
  <2>2. QED
    BY <2>1
<1>5. ASSUME NEW t \in Thread, Load(t) PROVE Filled'
  BY <1>0, <1>5, FilledLoad
<1>6. ASSUME NEW t \in Thread, Loaded(t) PROVE Filled'
  <2>1. /\ pc[t] \in Tile /\ i[t] >= Height(pc[t])
        /\ pc' = [pc EXCEPT ![t] = IF pc[t] = "As" THEN "Bs" ELSE "wait"]
        /\ i' = [i EXCEPT ![t] = 0]
        /\ UNCHANGED <<base, tile, stray>>
    BY <1>6 DEF Loaded, Goto
  <2>2. pc \in [Thread -> Tile \cup {"wait", "compute", "turn", "store", "done"}]
        /\ i \in [Thread -> Nat]
    BY DEF TypeOK
  <2>3. ASSUME NEW x \in Tile, NEW c \in Cell(x), Past(Loader(x, c), x, c[1])'
        PROVE  Past(Loader(x, c), x, c[1])
    <3>1. CASE Loader(x, c) # t
      BY <1>1, <1>3, <2>1, <2>2, <2>3, <3>1 DEF Past
    <3>2. CASE Loader(x, c) = t
      <4>1. c[1] < Height(x) /\ c[1] \in Nat
        BY <1>3
      <4>2. pc'[t] = (IF pc[t] = "As" THEN "Bs" ELSE "wait") /\ i'[t] = 0
        BY <2>1, <2>2
      <4>3. Height(x) \in Nat /\ i[t] \in Nat
        BY <1>0, <2>2, Counts
      <4>4. CASE pc[t] = "As"
        <5>1. x = "As"
          BY <1>1, <2>3, <3>2, <4>1, <4>2, <4>4 DEF Past, Tile
        <5>2. QED
          BY <2>1, <3>2, <4>1, <4>3, <4>4, <5>1 DEF Past
      <4>5. CASE pc[t] = "Bs"
        BY <2>1, <3>2, <4>1, <4>3, <4>5 DEF Past, Tile
      <4>6. QED
        BY <2>1, <4>4, <4>5 DEF Tile
    <3>3. QED
      BY <3>1, <3>2
  <2>4. \A u \in Thread : pc'[u] \in Tile => i'[u] % Stride(pc'[u]) = 0
    BY <1>2, <1>4, <2>1, <2>2
  <2>5. QED
    BY <1>1, <1>2, <2>1, <2>3, <2>4 DEF Filled
<1>7. ASSUME NEW t \in Thread, Compute(t) \/ Computed(t) \/ Store(t) PROVE Filled'
  <2>1. /\ pc[t] \in {"compute", "store"} /\ pc'[t] \notin Tile
        /\ pc'[t] \in {"compute", "turn"} => pc[t] = "compute"
        /\ pc'[t] # "wait"
        /\ \A u \in Thread \ {t} : pc'[u] = pc[u] /\ i'[u] = i[u]
        /\ UNCHANGED <<base, tile, stray>>
    BY <1>7 DEF Compute, Computed, Store, Goto, TypeOK, Tile
  <2>2. ASSUME NEW x \in Tile, NEW c \in Cell(x), Past(Loader(x, c), x, c[1])'
        PROVE  Past(Loader(x, c), x, c[1])
    BY <1>1, <1>3, <2>1, <2>2 DEF Past, Tile
  <2>3. QED
    BY <1>1, <1>2, <2>1, <2>2 DEF Filled
<1>8. CASE TilesReady
  <2>1. /\ \A t \in Thread : pc[t] = "wait" /\ pc'[t] = "compute"
        /\ UNCHANGED <<base, i, tile, stray>>
    BY <1>8 DEF TilesReady
  <2>2. ASSUME NEW x \in Tile, NEW c \in Cell(x)
        PROVE  Past(Loader(x, c), x, c[1])
    BY <1>3, <2>1 DEF Past
  <2>3. QED
    BY <1>1, <1>2, <2>1, <2>2 DEF Filled, Tile
<1>9. CASE TilesUsed
  <2>1. /\ \A t \in Thread : pc'[t] \in {"As", "store"} /\ i'[t] = 0
        /\ UNCHANGED <<tile, stray>>
    BY <1>9 DEF TilesUsed
  <2>2. ASSUME NEW x \in Tile, NEW c \in Cell(x)
        PROVE  ~Past(Loader(x, c), x, c[1])'
    BY <1>1, <1>3, <2>1 DEF Past, Tile
  <2>3. \A t \in Thread : pc'[t] \in Tile => i'[t] % Stride(pc'[t]) = 0
    BY <1>4, <2>1
  <2>4. QED
    BY <1>1, <1>2, <2>1, <2>2, <2>3 DEF Filled
<1>10. CASE UNCHANGED vars
  BY <1>1, <1>2, <1>10 DEF vars, Filled, Past
<1>11. QED
  BY <1>5, <1>6, <1>7, <1>8, <1>9, <1>10 DEF Next, Step, Ended

LEMMA FilledAlways == Spec => [](TypeOK /\ Rounds /\ Filled)
<1>1. Init => Filled
  <2> SUFFICES ASSUME Init, TilesFit PROVE Filled
    BY DEF Filled
  <2>1. shape \in Shapes /\ stray = {} /\ \A t \in Thread : pc[t] = "As" /\ i[t] = 0
    BY DEF Init
  <2>2. 0 % Stride("As") = 0
    <3>1. Stride("As") \in Nat \ {0}
      BY <2>1, Fitting DEF Tile
    <3>2. (0 * Stride("As")) % Stride("As") = 0 /\ 0 * Stride("As") = 0
      BY <3>1, Multiple
    <3>3. QED
      BY <3>2
  <2>3. \A x \in Tile : \A c \in Cell(x) : Loader(x, c) \in Thread /\ c[1] \in Nat
    BY <2>1, Fitting DEF Loader
  <2>4. \A x \in Tile : \A c \in Cell(x) : ~Past(Loader(x, c), x, c[1])
    BY <2>1, <2>3 DEF Past, Tile
  <2>5. QED
    BY <2>1, <2>2, <2>4 DEF Filled
<1>2. QED
  BY <1>1, MatmulTypes, FilledStep, PTL DEF Spec

(* No thread writes a cell another has still to read or is about to write.  *)
THEOREM LoadsRaceWithNothing == Spec => []NoRace
<1>1. TypeOK /\ Rounds /\ Filled => NoRace
  <2> SUFFICES ASSUME TypeOK, Rounds, Filled, NEW t \in Thread, NEW u \in Thread, Loading(t)
               PROVE  /\ pc[u] # "compute"
                      /\ TilesFit /\ t # u /\ Loading(u) /\ pc[u] = pc[t] =>
                           <<Row(t, pc[t]), Column(t, pc[t])>>
                             # <<Row(u, pc[t]), Column(u, pc[t])>>
    BY DEF NoRace
  <2>1. pc[u] # "compute"
    BY DEF Loading, Rounds, Tile
  <2>2. ASSUME TilesFit, Loading(u), pc[u] = pc[t],
               <<Row(t, pc[t]), Column(t, pc[t])>> = <<Row(u, pc[t]), Column(u, pc[t])>>
        PROVE  t = u
    <3>1. /\ pc[t] \in Tile
          /\ i[t] % Stride(pc[t]) = 0 /\ i[t] < Height(pc[t])
          /\ i[u] % Stride(pc[t]) = 0 /\ i[u] < Height(pc[t])
      BY <2>2 DEF Loading, Filled
    <3>2. Loader(pc[t], <<Row(t, pc[t]), Column(t, pc[t])>>) = t
      BY <2>2, <3>1, NextCell
    <3>3. Loader(pc[t], <<Row(u, pc[t]), Column(u, pc[t])>>) = u
      BY <2>2, <3>1, NextCell
    <3>4. QED
      BY <2>2, <3>2, <3>3
  <2>3. QED
    BY <2>1, <2>2
<1>2. QED
  BY <1>1, FilledAlways, PTL

(* No load misses its tile where the tiles fit, ...                        *)
THEOREM LoadsStayInside == Spec => []StaysInside
<1>1. Filled => StaysInside
  BY DEF Filled, StaysInside
<1>2. QED
  BY <1>1, FilledAlways, PTL

LEMMA WholeTiles ==
  ASSUME TypeOK, Rounds, Filled, TilesFit, NEW u \in Thread, pc[u] = "compute"
  PROVE  \A x \in Tile : \A c \in Cell(x) : tile[x][c] = Whole(x, c)
<1>1. \A t \in Thread : pc[t] \in {"compute", "turn"}
  BY DEF Rounds, Tile
<1>2. \A x \in Tile : \A c \in Cell(x) : Loader(x, c) \in Thread
  BY Fitting DEF Loader, TypeOK
<1>3. QED
  BY <1>1, <1>2 DEF Past, Filled

(* ... and the tiles are whole when they are read.                         *)
THEOREM TilesAreFilled == Spec => []TilesAreWhole
<1>1. TypeOK /\ Rounds /\ Filled => TilesAreWhole
  BY WholeTiles DEF TilesAreWhole, Whole
<1>2. QED
  BY <1>1, FilledAlways, PTL
-----------------------------------------------------------------------------
(* The sums: after n products an element has the inner indexes below n, in  *)
(* order; those beyond K are other data.                                   *)
Element(k) == IF k < shape.K THEN k ELSE Junk

Terms(n) == [j \in 1 .. n |-> Element(j - 1)]

(* The products a thread has added to each of its elements.                *)
Count(t) == IF pc[t] \in {"compute", "turn"} THEN base + i[t] ELSE base

Added ==
  TilesFit =>
    /\ base % shape.BK = 0
    /\ Divides(shape.BK, shape.K) => base <= shape.K
    /\ \A t \in Thread : /\ pc[t] = "wait" => i[t] = 0
                         /\ pc[t] = "compute" => i[t] <= shape.BK
                         /\ pc[t] = "turn" => i[t] = shape.BK
                         /\ pc[t] \in {"store", "done"} => base >= shape.K
    /\ \A t \in Thread : \A e \in Own : tmp[t][e] = Terms(Count(t))

(* The sequence of n terms and one more.                                   *)
LEMMA TermsGrow ==
  ASSUME shape \in Shapes, NEW n \in Nat
  PROVE  /\ Append(Terms(n), Element(n)) = Terms(n + 1)
         /\ Len(Terms(n)) = n
<1> DEFINE S == (0 .. shape.K - 1) \cup {Junk}
           f == Terms(n)
           x == Element(n)
           g == Append(f, x)
<1>0. shape.K \in Nat
  BY ShapeType
<1>1. x \in S /\ \A j \in 1 .. n : Element(j - 1) \in S
  BY <1>0 DEF Element
<1>2. f \in [1 .. n -> S]
  BY <1>1 DEF Terms
<1>3. \A j \in 1 .. n : f[j] = Element(j - 1)
  BY DEF Terms
<1> HIDE DEF S, f, x, g
<1>4. f \in Seq(S)
  BY <1>2
<1>5. Len(f) = n
  <2>1. Len(f) \in Nat /\ DOMAIN f = 1 .. Len(f)
    BY <1>4
  <2>2. 1 .. Len(f) = 1 .. n
    BY <1>2, <2>1
  <2>3. \A m \in Nat : 1 .. m = 1 .. n => m = n
    OBVIOUS
  <2>4. QED
    BY <2>1, <2>2, <2>3
<1>6. g \in Seq(S) /\ Len(g) = n + 1
  BY <1>1, <1>4, <1>5 DEF g
<1>7. \A j \in 1 .. n + 1 : g[j] = IF j = n + 1 THEN x ELSE f[j]
  BY <1>1, <1>4, <1>5 DEF g
<1>8. g \in [1 .. n + 1 -> S]
  <2>1. PICK m \in Nat : g \in [1 .. m -> S]
    BY <1>6
  <2>2. Len(g) = m
    BY <2>1, <1>6
  <2>3. QED
    BY <2>1, <2>2, <1>6
<1>9. \A j \in 1 .. n + 1 : g[j] = Element(j - 1)
  BY <1>3, <1>7 DEF x
<1>10. g = Terms(n + 1)
  BY <1>8, <1>9 DEF Terms
<1>11. QED
  BY <1>5, <1>10 DEF g, f, x

(* Below K there is a whole round left if rounds divide K.                 *)
LEMMA RoundLeft ==
  ASSUME shape \in Shapes, base \in Nat, base % shape.BK = 0, Divides(shape.BK, shape.K),
         base < shape.K
  PROVE  base + shape.BK <= shape.K
<1> DEFINE d == shape.BK
           k == shape.K
<1>1. d \in Nat \ {0} /\ k \in Nat /\ k % d = 0
  BY ShapeType DEF Divides
<1> HIDE DEF d, k
<1>2. PICK p \in Nat : base = p * d
  BY <1>1, Quotient DEF d
<1>3. PICK q \in Nat : k = q * d
  BY <1>1, Quotient
<1>4. p < q
  <2>1. ASSUME p >= q PROVE FALSE
    <3>1. p * d >= q * d
      BY <1>1, <2>1
    <3>2. QED
      BY <1>1, <1>2, <1>3, <3>1 DEF k
  <2>2. QED
    BY <2>1
<1>5. QED
  BY <1>1, <1>2, <1>3, <1>4, MultipleGap DEF d, k

(* A thread adds the next product to each of its elements.                 *)
LEMMA OneTerm ==
  ASSUME TypeOK, Rounds, Filled, TilesFit, NEW t \in Thread, Compute(t), NEW e \in Own
  PROVE  tmp'[t][e] = Append(tmp[t][e], Element(base + i[t]))
<1>1. /\ shape \in Shapes /\ i[t] \in 0 .. shape.BK - 1 /\ pc[t] = "compute" /\ base \in Nat
  BY ShapeType DEF TypeOK, Compute
<1> DEFINE a == <<ty(t) + e[1], i[t]>>
           b == <<i[t], tx(t) + e[2]>>
<1>2. a \in Cell("As") /\ b \in Cell("Bs")
  BY <1>1, Places DEF Cell, Height, Width
<1>3. tile["As"][a] = Whole("As", a) /\ tile["Bs"][b] = Whole("Bs", b)
  BY <1>1, <1>2, WholeTiles DEF Tile
<1>4. Whole("As", a) = Element(base + i[t]) /\ Whole("Bs", b) = Element(base + i[t])
  BY DEF Whole, Element
<1>5. Term(tile["As"][a], tile["Bs"][b]) = Element(base + i[t])
  BY <1>3, <1>4 DEF Term
<1>6. tmp'[t] = [f \in Own |-> Append(tmp[t][f], Term(tile["As"][<<ty(t) + f[1], i[t]>>],
                                                      tile["Bs"][<<i[t], tx(t) + f[2]>>]))]
  BY DEF Compute, TypeOK
<1>7. tmp'[t][e] = Append(tmp[t][e], Term(tile["As"][a], tile["Bs"][b]))
  BY <1>6
<1>8. QED
  BY <1>5, <1>7

LEMMA AddedStep ==
  ASSUME TypeOK, TypeOK', Rounds, Filled, Added, [Next]_vars
  PROVE  Added'
<1>0. shape' = shape /\ shape \in Shapes /\ base \in Nat /\ 0 \in Thread
  BY ShapeStays, Counts, ShapeType DEF TypeOK
<1>1. /\ Thread' = Thread /\ Own' = Own /\ TilesFit' = TilesFit
      /\ \A n : Terms(n)' = Terms(n)
  BY <1>0, CountsStay DEF Terms, Element
<1> SUFFICES ASSUME TilesFit PROVE Added'
  BY <1>1 DEF Added
<1>2. /\ base % shape.BK = 0
      /\ Divides(shape.BK, shape.K) => base <= shape.K
      /\ \A t \in Thread : /\ pc[t] = "wait" => i[t] = 0
                           /\ pc[t] = "compute" => i[t] <= shape.BK
                           /\ pc[t] = "turn" => i[t] = shape.BK
                           /\ pc[t] \in {"store", "done"} => base >= shape.K
      /\ \A t \in Thread : \A e \in Own : tmp[t][e] = Terms(Count(t))
  BY DEF Added
<1>3. shape.BK \in Nat \ {0} /\ shape.K \in Nat
  BY <1>0, ShapeType
<1>4. ASSUME NEW t \in Thread, Load(t) \/ Loaded(t) \/ Computed(t) \/ Store(t)
      PROVE  Added'
  <2>1. UNCHANGED <<base, tmp, shape>>
    BY <1>4 DEF Load, Loaded, Computed, Store
  <2>2. ASSUME NEW u \in Thread
        PROVE  /\ Count(u)' = Count(u)
               /\ pc'[u] = "wait" => i'[u] = 0
               /\ pc'[u] = "compute" => i'[u] <= shape.BK
               /\ pc'[u] = "turn" => i'[u] = shape.BK
               /\ pc'[u] \in {"store", "done"} => base >= shape.K
    <3>1. CASE Load(t)
      <4>1. pc' = pc /\ pc[t] \in Tile /\ \A v \in Thread \ {t} : i'[v] = i[v]
        BY <3>1 DEF Load, TypeOK
      <4>2. QED
        BY <1>2, <2>1, <4>1 DEF Count, Tile
    <3>2. CASE Loaded(t)
      <4>1. /\ pc[t] \in Tile /\ pc'[t] \in {"Bs", "wait"} /\ i'[t] = 0
            /\ \A v \in Thread \ {t} : i'[v] = i[v] /\ pc'[v] = pc[v]
        BY <3>2 DEF Loaded, Goto, TypeOK
      <4>2. QED
        BY <1>2, <2>1, <4>1 DEF Count, Tile
    <3>3. CASE Computed(t)
      <4>1. /\ pc[t] = "compute" /\ pc'[t] = "turn" /\ i' = i /\ i[t] >= shape.BK
            /\ \A v \in Thread \ {t} : pc'[v] = pc[v]
            /\ i[t] \in Nat
        BY <3>3 DEF Computed, TypeOK
      <4>2. QED
        BY <1>2, <1>3, <2>1, <4>1 DEF Count
    <3>4. CASE Store(t)
      <4>1. /\ pc[t] = "store" /\ pc'[t] = "done"
            /\ \A v \in Thread \ {t} : i'[v] = i[v] /\ pc'[v] = pc[v]
        BY <3>4 DEF Store, Goto, TypeOK
      <4>2. QED
        BY <1>2, <2>1, <4>1 DEF Count
    <3>5. QED
      BY <1>4, <3>1, <3>2, <3>3, <3>4
  <2>3. QED
    BY <1>1, <1>2, <2>1, <2>2 DEF Added
<1>5. ASSUME NEW t \in Thread, Compute(t) PROVE Added'
  <2>1. /\ pc' = pc /\ pc[t] = "compute" /\ i[t] < shape.BK /\ i'[t] = i[t] + 1
        /\ i[t] \in Nat
        /\ \A v \in Thread \ {t} : i'[v] = i[v] /\ tmp'[v] = tmp[v]
        /\ UNCHANGED <<base, shape>>
    BY <1>5 DEF Compute, TypeOK
  <2>2. ASSUME NEW e \in Own PROVE tmp'[t][e] = Terms(Count(t)')
    <3> DEFINE n == base + i[t]
    <3>1. n \in Nat /\ Count(t) = n /\ Count(t)' = n + 1
      BY <1>0, <2>1 DEF Count
    <3>2. tmp'[t][e] = Append(Terms(n), Element(n))
      BY <1>2, <1>5, <3>1, OneTerm
    <3> HIDE DEF n
    <3>3. QED
      BY <1>0, <3>1, <3>2, TermsGrow
  <2>3. \A v \in Thread \ {t} : Count(v)' = Count(v)
    BY <2>1 DEF Count
  <2>4. \A v \in Thread : \A e \in Own : tmp'[v][e] = Terms(Count(v)')
    BY <1>2, <2>1, <2>2, <2>3
  <2>5. \A v \in Thread : pc[v] = "compute" => i'[v] <= shape.BK
    BY <1>2, <1>3, <2>1
  <2>6. \A v \in Thread : pc[v] # "compute" => i'[v] = i[v]
    BY <2>1
  <2>7. QED
    BY <1>1, <1>2, <2>1, <2>4, <2>5, <2>6 DEF Added
<1>6. CASE TilesReady
  <2>1. /\ \A t \in Thread : pc[t] = "wait" /\ pc'[t] = "compute" /\ i[t] = 0
        /\ UNCHANGED <<base, i, tmp, shape>>
    BY <1>2, <1>6 DEF TilesReady
  <2>2. \A t \in Thread : Count(t)' = Count(t)
    BY <1>0, <2>1 DEF Count
  <2>3. QED
    BY <1>1, <1>2, <1>3, <2>1, <2>2 DEF Added
<1>7. CASE TilesUsed
  <2>1. /\ \A t \in Thread : pc[t] = "turn" /\ pc'[t] \in {"As", "store"}
        /\ \A t \in Thread : pc'[t] = "store" => base' >= shape.K
        /\ base' = base + shape.BK /\ tmp' = tmp
    BY <1>0, <1>3, <1>7 DEF TilesUsed
  <2>2. base < shape.K
    BY <1>0, <2>1 DEF Rounds
  <2>3. base' % shape.BK = 0
    BY <1>0, <1>2, <1>3, <2>1, StepKeepsRemainder
  <2>4. Divides(shape.BK, shape.K) => base' <= shape.K
    BY <1>0, <1>2, <2>1, <2>2, RoundLeft
  <2>5. \A t \in Thread : Count(t)' = Count(t)
    BY <1>2, <2>1 DEF Count
  <2>6. QED
    BY <1>0, <1>1, <1>2, <2>1, <2>3, <2>4, <2>5 DEF Added, Divides
<1>8. CASE UNCHANGED vars
  BY <1>1, <1>2, <1>8 DEF vars, Added, Count, Divides
<1>9. QED
  BY <1>4, <1>5, <1>6, <1>7, <1>8 DEF Next, Step, Ended

LEMMA AddedAlways == Spec => [](TypeOK /\ Rounds /\ Filled /\ Added)
<1>1. Init => Added
  <2> SUFFICES ASSUME Init PROVE Added
    OBVIOUS
  <2>1. shape.BK \in Nat \ {0} /\ shape.K \in Nat
    BY ShapeType DEF Init
  <2>2. 0 % shape.BK = 0
    BY <2>1
  <2>3. Terms(0) = <<>>
    BY DEF Terms
  <2>4. \A t \in Thread : pc[t] = "As" /\ i[t] = 0 /\ \A e \in Own : tmp[t][e] = <<>>
    BY DEF Init
  <2>5. \A t \in Thread : Count(t) = 0
    BY <2>4 DEF Init, Count
  <2>6. QED
    BY <2>1, <2>2, <2>3, <2>4, <2>5 DEF Init, Added
<1>2. TypeOK /\ TypeOK' /\ Rounds /\ Filled /\ Added /\ [Next]_vars => Added'
  BY AddedStep
<1>3. QED
  BY <1>1, <1>2, FilledAlways, PTL DEF Spec

-----------------------------------------------------------------------------
(* A K that is no multiple of BK leaves something that is no product in     *)
(* every sum (matmul.cu:48-49, 107-114).                                   *)
THEOREM RaggedSumsAreWrong == Spec => []RaggedIsWrong
<1>1. TypeOK /\ Rounds /\ Filled /\ Added => RaggedIsWrong
  <2> SUFFICES ASSUME TypeOK, Added, TilesFit, ~Fits,
                      NEW t \in Thread, pc[t] = "done", NEW e \in Own
               PROVE  \E j \in DOMAIN tmp[t][e] : tmp[t][e][j] = Junk
    BY DEF RaggedIsWrong
  <2>1. shape.BK \in Nat \ {0} /\ shape.K \in Nat /\ base \in Nat
    BY ShapeType DEF TypeOK
  <2>2. base >= shape.K /\ base % shape.BK = 0 /\ shape.K % shape.BK # 0
    BY DEF Added, Fits, Divides
  <2>3. base > shape.K
    BY <2>1, <2>2
  <2>4. tmp[t][e] = Terms(base)
    BY DEF Added, Count
  <2>5. shape.K + 1 \in 1 .. base
    BY <2>1, <2>3
  <2>6. Terms(base)[shape.K + 1] = Junk
    BY <2>1, <2>5 DEF Terms, Element
  <2>7. DOMAIN Terms(base) = 1 .. base
    BY DEF Terms
  <2>8. QED
    BY <2>4, <2>5, <2>6, <2>7
<1>2. QED
  BY <1>1, AddedAlways, PTL

-----------------------------------------------------------------------------
(* Where the tiles fit, every element of the block has an owner.            *)
LEMMA Owners ==
  ASSUME shape \in Shapes, TilesFit, NEW c \in Block
  PROVE  /\ c \in Grid
         /\ c[1] < shape.BM /\ c[2] < shape.BN
         /\ Owner(c) \in Thread
         /\ Local(c) \in Own
<1> USE ShapeType
<1>1. c \in Grid /\ c[1] \in 0 .. shape.BM - 1 /\ c[2] \in 0 .. shape.BN - 1
  BY DEF Block, Grid
<1>1a. c[1] \in Nat /\ c[2] \in Nat
  BY <1>1
<1>2. Local(c) \in Own
  <2>1. c[1] % shape.TM \in 0 .. shape.TM - 1 /\ c[2] % shape.TN \in 0 .. shape.TN - 1
    <3> DEFINE a == c[1]
               b == c[2]
               m == shape.TM
               n == shape.TN
    <3>1. a \in Nat /\ b \in Nat /\ m \in Nat \ {0} /\ n \in Nat \ {0}
      BY <1>1a
    <3> HIDE DEF a, b, m, n
    <3>2. a % m \in 0 .. m - 1 /\ b % n \in 0 .. n - 1
      BY <3>1, Division
    <3>3. QED
      BY <3>2 DEF a, b, m, n
  <2>2. QED
    BY <2>1 DEF Local, Own
<1> DEFINE r == block_row_thread(shape)
           k == block_col_thread(shape)
           p == c[1] \div shape.TM
           q == c[2] \div shape.TN
<1>3. r \in Nat \ {0} /\ k \in Nat \ {0} /\ thread_num(shape) = r * k
  BY Counts DEF thread_num
<1>4. r * shape.TN = shape.BN /\ k * shape.TM = shape.BM
  <2>1. shape.BN % shape.TN = 0 /\ shape.BM % shape.TM = 0
    BY DEF TilesFit, Divides
  <2>2. /\ shape.BN = (shape.BN \div shape.TN) * shape.TN + (shape.BN % shape.TN)
        /\ shape.BM = (shape.BM \div shape.TM) * shape.TM + (shape.BM % shape.TM)
        /\ shape.BN \div shape.TN \in Nat /\ shape.BM \div shape.TM \in Nat
    BY Division
  <2>3. QED
    BY <2>1, <2>2 DEF block_row_thread, block_col_thread
<1>5. /\ p \in Nat /\ p * shape.TM <= c[1]
      /\ q \in Nat /\ q * shape.TN <= c[2]
  <2>1. /\ p \in Nat /\ c[1] % shape.TM \in 0 .. shape.TM - 1
        /\ c[1] = p * shape.TM + (c[1] % shape.TM)
        /\ q \in Nat /\ c[2] % shape.TN \in 0 .. shape.TN - 1
        /\ c[2] = q * shape.TN + (c[2] % shape.TN)
    <3> DEFINE a == c[1]
               b == c[2]
               m == shape.TM
               n == shape.TN
    <3>1. a \in Nat /\ b \in Nat /\ m \in Nat \ {0} /\ n \in Nat \ {0}
      BY <1>1a
    <3> HIDE DEF a, b, m, n
    <3>2. /\ a \div m \in Nat /\ a % m \in 0 .. m - 1 /\ a = (a \div m) * m + (a % m)
          /\ b \div n \in Nat /\ b % n \in 0 .. n - 1 /\ b = (b \div n) * n + (b % n)
      BY <3>1, Division
    <3>3. QED
      BY <3>2 DEF a, b, m, n
  <2> HIDE DEF p, q
  <2>2. p * shape.TM \in Nat /\ q * shape.TN \in Nat
    BY <2>1
  <2>3. QED
    BY <1>1, <2>1, <2>2
<1> HIDE DEF r, k, p, q
<1>6. p < k
  <2>1. ASSUME p >= k PROVE FALSE
    <3>1. p * shape.TM >= k * shape.TM
      BY <1>3, <1>5, <2>1
    <3>2. QED
      BY <1>1, <1>4, <1>5, <3>1
  <2>2. QED
    BY <1>3, <1>5, <2>1
<1>7. q < r
  <2>1. ASSUME q >= r PROVE FALSE
    <3>1. q * shape.TN >= r * shape.TN
      BY <1>3, <1>5, <2>1
    <3>2. QED
      BY <1>1, <1>4, <1>5, <3>1
  <2>2. QED
    BY <1>3, <1>5, <2>1
<1>8. p * r + r <= k * r
  BY <1>3, <1>5, <1>6, MultipleGap
<1>9. p * r \in Nat /\ k * r = r * k
  BY <1>3, <1>5
<1>10. p * r + q \in Nat /\ p * r + q < r * k
  BY <1>3, <1>5, <1>7, <1>8, <1>9
<1>11. Owner(c) = p * r + q
  BY DEF Owner, p, q, r
<1>12. Owner(c) \in Thread
  BY <1>3, <1>10, <1>11 DEF Thread, ThreadOf
<1>13. QED
  BY <1>1, <1>2, <1>12

(* What the block does for C, as mysgemm_v1 would see it.                   *)
Sums == [c \in Grid |-> IF c \in Block THEN tmp[Owner(c)][Local(c)] ELSE <<>>]

Written == {c \in Grid : c \in Block /\ pc[Owner(c)] = "done"}

Elements(t) == {c \in Block : Owner(c) = t}

LEMMA BlockStays ==
  ASSUME shape' = shape
  PROVE  /\ Block' = Block /\ Grid' = Grid
         /\ \A c : Owner(c)' = Owner(c) /\ Local(c)' = Local(c)
BY DEF Block, Grid, Owner, Local, block_row_thread

(* A thread's products are added to all of its elements, ...               *)
LEMMA ComputeAdds ==
  ASSUME TypeOK, Rounds, Filled, Added, Fits, NEW t \in Thread, Compute(t)
  PROVE  /\ Written' = Written
         /\ \A c \in Elements(t) : Len(Sums[c]) < shape.K
         /\ Sums' = [c \in Grid |-> IF c \in Elements(t)
                                     THEN Append(Sums[c], Len(Sums[c])) ELSE Sums[c]]
<1> DEFINE n == base + i[t]
<1>0. TilesFit /\ Divides(shape.BK, shape.K)
  BY DEF Fits
<1>1. /\ shape \in Shapes /\ shape' = shape /\ pc' = pc
      /\ pc[t] = "compute" /\ i[t] \in Nat /\ i[t] < shape.BK
      /\ \A u \in Thread \ {t} : tmp'[u] = tmp[u]
      /\ base \in Nat /\ shape.K \in Nat /\ shape.BK \in Nat
  BY ShapeType DEF TypeOK, Compute
<1>2. /\ Block' = Block /\ Grid' = Grid
      /\ \A c : Owner(c)' = Owner(c) /\ Local(c)' = Local(c)
  BY <1>1, BlockStays
<1>3. \A c \in Block : c \in Grid /\ Owner(c) \in Thread /\ Local(c) \in Own
  BY <1>0, <1>1, Owners
<1>4. base < shape.K /\ base % shape.BK = 0
  BY <1>0, <1>1 DEF Rounds, Added
<1>5. base + shape.BK <= shape.K
  BY <1>0, <1>1, <1>4, RoundLeft
<1>6. n \in Nat /\ n < shape.K /\ Count(t) = n
  BY <1>1, <1>5 DEF Count
<1>7. \A e \in Own : tmp[t][e] = Terms(n)
  BY <1>0, <1>6 DEF Added
<1>8. \A e \in Own : tmp'[t][e] = Append(tmp[t][e], n)
  BY <1>0, <1>6, OneTerm DEF Element
<1> HIDE DEF n
<1>9. Len(Terms(n)) = n
  BY <1>1, <1>6, TermsGrow
<1>10. Written' = Written
  BY <1>1, <1>2 DEF Written
<1>11. ASSUME NEW c \in Elements(t)
       PROVE  /\ Sums[c] = Terms(n) /\ Len(Sums[c]) = n
              /\ tmp'[Owner(c)][Local(c)] = Append(Sums[c], Len(Sums[c]))
  <2>1. c \in Block /\ Owner(c) = t /\ c \in Grid /\ Local(c) \in Own
    BY <1>3 DEF Elements
  <2>2. Sums[c] = tmp[t][Local(c)]
    BY <2>1 DEF Sums
  <2>3. QED
    BY <1>7, <1>8, <1>9, <2>1, <2>2
<1>12. ASSUME NEW c \in Block, c \notin Elements(t)
       PROVE  tmp'[Owner(c)][Local(c)] = Sums[c]
  <2>1. Owner(c) \in Thread \ {t} /\ c \in Grid
    BY <1>3, <1>12 DEF Elements
  <2>2. QED
    BY <1>1, <2>1 DEF Sums
<1>13. \A c \in Grid \ Block : Sums[c] = <<>> /\ c \notin Elements(t)
  BY DEF Sums, Elements
<1>14. Sums' = [c \in Grid |-> IF c \in Block THEN tmp'[Owner(c)][Local(c)] ELSE <<>>]
  BY <1>2 DEF Sums
<1>15. Sums' = [c \in Grid |-> IF c \in Elements(t)
                               THEN Append(Sums[c], Len(Sums[c])) ELSE Sums[c]]
  BY <1>11, <1>12, <1>13, <1>14 DEF Elements
<1>16. QED
  BY <1>6, <1>10, <1>11, <1>15

(* ... it stores each of them once their sums are complete, ...             *)
LEMMA StoreWrites ==
  ASSUME TypeOK, Rounds, Added, Fits, NEW t \in Thread, Store(t)
  PROVE  /\ Sums' = Sums
         /\ \A c \in Elements(t) : Len(Sums[c]) = shape.K /\ c \notin Written
         /\ Written' = Written \cup Elements(t)
<1>0. TilesFit /\ Divides(shape.BK, shape.K)
  BY DEF Fits
<1>1. /\ shape \in Shapes /\ shape' = shape /\ tmp' = tmp
      /\ pc[t] = "store" /\ pc'[t] = "done"
      /\ \A u \in Thread \ {t} : pc'[u] = pc[u]
      /\ base \in Nat /\ shape.K \in Nat
  BY ShapeType DEF TypeOK, Store, Goto
<1>2. /\ Block' = Block /\ Grid' = Grid
      /\ \A c : Owner(c)' = Owner(c) /\ Local(c)' = Local(c)
  BY <1>1, BlockStays
<1>3. \A c \in Block : c \in Grid /\ Owner(c) \in Thread /\ Local(c) \in Own
  BY <1>0, <1>1, Owners
<1>4. base = shape.K
  BY <1>0, <1>1 DEF Added
<1>5. \A e \in Own : tmp[t][e] = Terms(shape.K)
  BY <1>0, <1>1, <1>4 DEF Added, Count
<1>6. Len(Terms(shape.K)) = shape.K
  BY <1>1, TermsGrow
<1>7. ASSUME NEW c \in Elements(t) PROVE Len(Sums[c]) = shape.K /\ c \notin Written
  <2>1. c \in Block /\ Owner(c) = t /\ c \in Grid /\ Local(c) \in Own
    BY <1>3 DEF Elements
  <2>2. QED
    BY <1>1, <1>5, <1>6, <2>1 DEF Sums, Written
<1>8. Sums' = Sums
  BY <1>1, <1>2 DEF Sums
<1>9. Written' = {c \in Grid : c \in Block /\ pc'[Owner(c)] = "done"}
  BY <1>2 DEF Written
<1>10. Written' = Written \cup Elements(t)
  BY <1>1, <1>3, <1>9 DEF Written, Elements
<1>11. QED
  BY <1>7, <1>8, <1>10

(* ... and no other step concerns C.                                       *)
LEMMA RestStutters ==
  ASSUME TypeOK, Fits,
         \/ \E t \in Thread : Load(t) \/ Loaded(t) \/ Computed(t)
         \/ TilesReady
         \/ TilesUsed
         \/ UNCHANGED vars
  PROVE  Sums' = Sums /\ Written' = Written
<1>1. shape \in Shapes /\ shape' = shape /\ tmp' = tmp
  BY DEF TypeOK, Load, Loaded, Computed, TilesReady, TilesUsed, vars
<1>2. /\ Block' = Block /\ Grid' = Grid
      /\ \A c : Owner(c)' = Owner(c) /\ Local(c)' = Local(c)
  BY <1>1, BlockStays
<1>3. \A c \in Block : c \in Grid /\ Owner(c) \in Thread
  BY <1>1, Owners DEF Fits
<1>4. \A u \in Thread : pc'[u] = "done" <=> pc[u] = "done"
  <2>1. ASSUME NEW t \in Thread, Load(t) \/ Loaded(t) \/ Computed(t)
        PROVE  \A u \in Thread : pc'[u] = "done" <=> pc[u] = "done"
    <3>1. CASE Load(t)
      BY <3>1 DEF Load
    <3>2. CASE Loaded(t)
      <4>1. pc[t] \in Tile /\ pc'[t] \in {"Bs", "wait"} /\ \A u \in Thread \ {t} : pc'[u] = pc[u]
        BY <3>2 DEF Loaded, Goto, TypeOK
      <4>2. QED
        BY <4>1 DEF Tile
    <3>3. CASE Computed(t)
      <4>1. /\ pc[t] = "compute" /\ pc'[t] = "turn"
            /\ \A u \in Thread \ {t} : pc'[u] = pc[u]
        BY <3>3 DEF Computed, TypeOK
      <4>2. QED
        BY <4>1
    <3>4. QED
      BY <2>1, <3>1, <3>2, <3>3
  <2>2. CASE TilesReady
    BY <2>2 DEF TilesReady
  <2>3. CASE TilesUsed
    <3>1. \A u \in Thread : pc[u] = "turn" /\ pc'[u] \in {"As", "store"}
      BY <2>3 DEF TilesUsed
    <3>2. QED
      BY <3>1
  <2>4. CASE UNCHANGED vars
    BY <2>4 DEF vars
  <2>5. QED
    BY <2>1, <2>2, <2>3, <2>4
<1>5. Sums' = Sums
  BY <1>1, <1>2 DEF Sums
<1>6. Written' = {c \in Grid : c \in Block /\ pc'[Owner(c)] = "done"}
  BY <1>2 DEF Written
<1>7. QED
  BY <1>3, <1>4, <1>5, <1>6 DEF Written

LEMMA NaiveStep ==
  ASSUME TypeOK, Rounds, Filled, Added, Fits, [Next]_vars
  PROVE  [Naive!Next]_(Naive!vars)
<1>0. shape' = shape /\ shape \in Shapes
  BY ShapeStays DEF TypeOK
<1>1. ASSUME NEW t \in Thread PROVE Elements(t) \in SUBSET Naive!Inside
  <2>1. \A c \in Block : c \in Grid /\ c[1] < shape.BM /\ c[2] < shape.BN
    BY <1>0, Owners DEF Fits
  <2>2. QED
    BY <2>1 DEF Naive!Inside, Elements
<1>2. ASSUME NEW t \in Thread, Compute(t) PROVE Naive!Next
  <2>1. /\ Written' = Written
        /\ \A c \in Elements(t) : Len(Sums[c]) < shape.K
        /\ Sums' = [c \in Grid |-> IF c \in Elements(t)
                                    THEN Append(Sums[c], Len(Sums[c])) ELSE Sums[c]]
    BY <1>2, ComputeAdds
  <2>2. \E E \in SUBSET Naive!Inside : Naive!AddProduct(E)
    <3> USE DEF Naive!AddProduct
    <3> Elements(t) \in SUBSET Naive!Inside
      BY <1>1
    <3> WITNESS Elements(t) \in SUBSET Naive!Inside
    <3> QED
      BY <1>0, <2>1 DEF Sums, Written
  <2>3. QED
    BY <2>2 DEF Naive!Next
<1>3. ASSUME NEW t \in Thread, Store(t) PROVE Naive!Next
  <2>1. /\ Sums' = Sums
        /\ \A c \in Elements(t) : Len(Sums[c]) = shape.K /\ c \notin Written
        /\ Written' = Written \cup Elements(t)
    BY <1>3, StoreWrites
  <2>2. \E E \in SUBSET Naive!Inside : Naive!Store(E)
    <3> USE DEF Naive!Store
    <3> Elements(t) \in SUBSET Naive!Inside
      BY <1>1
    <3> WITNESS Elements(t) \in SUBSET Naive!Inside
    <3> QED
      BY <1>0, <2>1 DEF Sums, Written
  <2>3. QED
    BY <2>2 DEF Naive!Next
<1>4. ASSUME \/ \E t \in Thread : Load(t) \/ Loaded(t) \/ Computed(t)
             \/ TilesReady
             \/ TilesUsed
             \/ UNCHANGED vars
      PROVE  UNCHANGED Naive!vars
  <2>1. Sums' = Sums /\ Written' = Written
    BY <1>4, RestStutters
  <2>2. QED
    BY <1>0, <2>1 DEF Naive!vars, Sums, Written
<1>5. QED
  BY <1>2, <1>3, <1>4 DEF Next, Step, Ended

(* A block where everything fits implements mysgemm_v1 (matmul.cu:5-20) on   *)
(* its part of C: same products, same order, one write when they are all    *)
(* added.                                                                  *)
THEOREM BlockImplementsNaive == Spec => ImplementsNaive
<1>1. Init => (Fits => Naive!Init)
  <2> SUFFICES ASSUME Init, Fits PROVE Naive!Init
    OBVIOUS
  <2>1. /\ shape \in Shapes /\ TilesFit
        /\ \A t \in Thread : pc[t] = "As" /\ \A e \in Own : tmp[t][e] = <<>>
    BY DEF Init, Fits
  <2>2. \A c \in Block : c \in Grid /\ Owner(c) \in Thread /\ Local(c) \in Own
    BY <2>1, Owners
  <2>3. shape.BM \in Nat /\ shape.BN \in Nat /\ shape.K \in Nat
    BY <2>1, ShapeType
  <2>4. QED
    BY <2>1, <2>2, <2>3 DEF Naive!Init
<1>2. TypeOK /\ Rounds /\ Filled /\ Added /\ [Next]_vars =>
        (Fits => [Naive!Next]_(Naive!vars))
  BY NaiveStep
<1>3. QED
  BY <1>1, <1>2, AddedAlways, PTL DEF Spec, ImplementsNaive
-----------------------------------------------------------------------------
(* Some thread is not waiting, or all threads are at the same barrier.     *)
CanGoOn ==
  \/ Done
  \/ \E t \in Thread : pc[t] \in Tile \cup {"compute", "store"}
  \/ \A t \in Thread : pc[t] = "wait"
  \/ \A t \in Thread : pc[t] = "turn"

(* No block of any shape is ever stuck at a barrier, the shapes whose tiles *)
(* do not fit included: every thread takes part in both, also when it has  *)
(* nothing to load (matmul.cu:101-131).                                     *)
THEOREM MatmulNeverStuck == Spec => []CanGoOn
<1>1. TypeOK /\ Rounds => CanGoOn
  BY DEF TypeOK, Rounds, CanGoOn, Done
<1>2. QED
  BY <1>1, MatmulTypes, PTL

-----------------------------------------------------------------------------
(* How many steps are left                                                 *)

Remaining(n, k) == IF k < n THEN n - k ELSE 0

(* At most so many steps of thread t, or of the block with it, in a round   *)
(* of the outer loop, ...                                                  *)
RoundSteps == shape.BM + 2 * shape.BK + 5

LeftInRound(t) ==
  CASE pc[t] = "As" -> Remaining(shape.BM, i[t]) + 2 * shape.BK + 5
    [] pc[t] = "Bs" -> Remaining(shape.BK, i[t]) + shape.BK + 4
    [] pc[t] = "wait" -> shape.BK + 3
    [] pc[t] = "compute" -> Remaining(shape.BK, i[t]) + 2
    [] pc[t] = "turn" -> 1
    [] pc[t] = "store" -> 1
    [] OTHER -> 0

(* ... and in all, when every round takes one column of K at least.         *)
Left(t) == (shape.K + shape.BK - base) * RoundSteps + LeftInRound(t)

(* Every step of a shape without a stride of 0 leaves fewer steps to some   *)
(* threads and to none of them more.                                       *)
StepsRunOut ==
  [][(\A x \in Tile : Stride(x) > 0) =>
       /\ \A t \in Thread : Left(t) \in Nat /\ Left(t)' \in Nat /\ Left(t)' <= Left(t)
       /\ \E t \in Thread : Left(t)' < Left(t)]_vars

LEMMA RoundType ==
  ASSUME TypeOK
  PROVE  /\ RoundSteps \in Nat /\ shape.K + shape.BK - base \in Nat
         /\ (shape.K + shape.BK - base) * RoundSteps \in Nat
         /\ \A t \in Thread : LeftInRound(t) \in 0 .. RoundSteps
         /\ \A t \in Thread : Left(t) \in Nat
<1>1. RoundSteps \in Nat /\ shape.K + shape.BK - base \in Nat
  <2>1. shape.BM \in Nat /\ shape.BK \in Nat /\ shape.K \in Nat
    BY ShapeType DEF TypeOK
  <2>2. base \in 0 .. shape.K + shape.BK
    BY DEF TypeOK
  <2>3. \A n \in Nat : \A b \in 0 .. n : n - b \in Nat
    OBVIOUS
  <2>4. shape.K + shape.BK \in Nat
    BY <2>1
  <2>5. QED
    BY <2>1, <2>2, <2>3, <2>4 DEF RoundSteps
<1>2. \A t \in Thread : LeftInRound(t) \in 0 .. RoundSteps
  <2> SUFFICES ASSUME NEW t \in Thread PROVE LeftInRound(t) \in 0 .. RoundSteps
    OBVIOUS
  <2>1. i[t] \in Nat /\ shape.BM \in Nat /\ shape.BK \in Nat
    BY ShapeType DEF TypeOK
  <2>2. /\ Remaining(shape.BM, i[t]) \in 0 .. shape.BM
        /\ Remaining(shape.BK, i[t]) \in 0 .. shape.BK
    BY <2>1 DEF Remaining
  <2>3. QED
    BY <2>1, <2>2 DEF LeftInRound, RoundSteps
<1> DEFINE T == shape.K + shape.BK - base
           R == RoundSteps
<1>3. T * R \in Nat
  <2>1. T \in Nat /\ R \in Nat
    BY <1>1
  <2> HIDE DEF T, R
  <2>2. QED
    BY <2>1
<1> HIDE DEF T, R
<1>4. \A t \in Thread : Left(t) \in Nat
  <2>1. \A t \in Thread : Left(t) = T * R + LeftInRound(t)
    BY DEF Left, T, R
  <2>2. \A t \in Thread : LeftInRound(t) \in Nat
    BY <1>1, <1>2
  <2>3. QED
    BY <1>3, <2>1, <2>2
<1>5. QED
  BY <1>1, <1>2, <1>3, <1>4 DEF T, R

(* Within a round, what counts is what is left of it.                      *)
LEMMA SameRound ==
  ASSUME TypeOK, TypeOK', shape' = shape, base' = base, NEW t \in Thread, t \in Thread'
  PROVE  /\ LeftInRound(t)' < LeftInRound(t) => Left(t)' < Left(t)
         /\ LeftInRound(t)' = LeftInRound(t) => Left(t)' = Left(t)
<1> DEFINE P == (shape.K + shape.BK - base) * RoundSteps
<1>1. P \in Nat /\ P' = P
  BY RoundType DEF RoundSteps
<1>2. LeftInRound(t) \in Nat
  BY RoundType
<1>3. LeftInRound(t)' \in Nat
  <2>1. TypeOK' => (LeftInRound(t) \in Nat)'
    <3>1. ASSUME TypeOK' PROVE LeftInRound(t)' \in Nat
      <4>1. i'[t] \in Nat /\ shape.BM \in Nat /\ shape.BK \in Nat
        BY ShapeType DEF TypeOK
      <4>2. QED
        BY <4>1 DEF LeftInRound, Remaining
    <3>2. QED
      BY <3>1
  <2>2. QED
    BY <2>1
<1>4. Left(t) = P + LeftInRound(t) /\ Left(t)' = P' + LeftInRound(t)'
  BY DEF Left
<1> HIDE DEF P
<1>5. QED
  BY <1>1, <1>2, <1>3, <1>4

(* A step of one thread.                                                   *)
LEMMA ThreadLeft ==
  ASSUME TypeOK, \A x \in Tile : Stride(x) > 0, shape' = shape, NEW t \in Thread, Step(t)
  PROVE  /\ base' = base
         /\ LeftInRound(t)' < LeftInRound(t)
         /\ \A u \in Thread \ {t} : LeftInRound(u)' = LeftInRound(u)
<1>0. /\ i \in [Thread -> Nat] /\ i[t] \in Nat
      /\ pc \in [Thread -> Tile \cup {"wait", "compute", "turn", "store", "done"}]
      /\ shape.BM \in Nat /\ shape.BK \in Nat
      /\ \A x \in Tile : Stride(x) \in Nat \ {0}
  <2>1. \A x \in Tile : Stride(x) \in Nat \ {0}
    <3>1. \A x \in Tile : Stride(x) \in Nat
      BY Counts DEF TypeOK
    <3>2. QED
      BY <3>1
  <2>2. QED
    BY <2>1, ShapeType DEF TypeOK
<1>1. base' = base /\ \A u \in Thread \ {t} : pc'[u] = pc[u] /\ i'[u] = i[u]
  BY <1>0 DEF Step, Load, Loaded, Compute, Computed, Store, Goto
<1>2. \A u \in Thread \ {t} : LeftInRound(u)' = LeftInRound(u)
  BY <1>1 DEF LeftInRound
<1>3. \/ pc[t] = "As" /\ pc'[t] = "As" /\ i[t] < shape.BM /\ i'[t] > i[t]
      \/ pc[t] = "Bs" /\ pc'[t] = "Bs" /\ i[t] < shape.BK /\ i'[t] > i[t]
      \/ pc[t] = "As" /\ pc'[t] = "Bs" /\ i'[t] = 0
      \/ pc[t] = "Bs" /\ pc'[t] = "wait"
      \/ pc[t] = "compute" /\ pc'[t] = "compute" /\ i[t] < shape.BK /\ i'[t] > i[t]
      \/ pc[t] = "compute" /\ pc'[t] = "turn"
      \/ pc[t] = "store" /\ pc'[t] = "done"
  <2>1. CASE Load(t)
    BY <1>0, <2>1 DEF Load, Tile, Height
  <2>2. CASE Loaded(t)
    BY <1>0, <2>2 DEF Loaded, Goto, Tile
  <2>3. CASE Compute(t) \/ Computed(t) \/ Store(t)
    BY <1>0, <2>3 DEF Compute, Computed, Store, Goto
  <2>4. QED
    BY <2>1, <2>2, <2>3 DEF Step
<1>4. i'[t] \in Nat
  <2>1. \/ i'[t] = 0 \/ i'[t] = i[t] \/ i'[t] = i[t] + 1
        \/ \E x \in Tile : i'[t] = i[t] + Stride(x)
    BY <1>0 DEF Step, Load, Loaded, Compute, Computed, Store, Goto
  <2>2. QED
    BY <1>0, <2>1
<1>5. LeftInRound(t)' < LeftInRound(t)
  BY <1>0, <1>3, <1>4 DEF LeftInRound, Remaining
<1>6. QED
  BY <1>1, <1>2, <1>5

(* A new round has taken its columns of K.                                 *)
LEMMA NextRound ==
  ASSUME TypeOK, TypeOK', shape' = shape, TilesUsed, NEW t \in Thread
  PROVE  Left(t)' < Left(t)
<1> DEFINE T == shape.K + shape.BK - base
           R == RoundSteps
<1>1. /\ T \in Nat /\ R \in Nat /\ R' = R /\ R = shape.BM + 2 * shape.BK + 5
      /\ shape.BK \in Nat \ {0} /\ shape.BM \in Nat \ {0}
  BY RoundType, ShapeType DEF TypeOK, RoundSteps
<1>2. T' = T - shape.BK /\ T' \in Nat
  <2>1. base' = base + shape.BK /\ base \in Nat /\ shape.K \in Nat
    BY ShapeType DEF TilesUsed, TypeOK
  <2>2. base' <= shape.K + shape.BK
    BY DEF TypeOK
  <2>3. QED
    BY <1>1, <2>1, <2>2
<1>3. pc[t] = "turn" /\ pc'[t] \in {"As", "store"} /\ i'[t] = 0
  BY DEF TilesUsed
<1>4. LeftInRound(t) = 1 /\ LeftInRound(t)' <= R /\ LeftInRound(t)' \in Nat
  BY <1>1, <1>3 DEF LeftInRound, Remaining
<1>5. Left(t) = T * R + LeftInRound(t) /\ Left(t)' = T' * R + LeftInRound(t)'
  BY <1>1 DEF Left
<1>6. T' < T
  BY <1>1, <1>2
<1>7. R \in Nat \ {0}
  BY <1>1
<1> HIDE DEF T, R
<1>8. T' * R + R <= T * R
  BY ONLY <1>1, <1>2, <1>6, <1>7, MultipleGap
<1>9. T' * R \in Nat /\ T * R \in Nat
  BY <1>1, <1>2
<1>10. QED
  BY <1>1, <1>4, <1>5, <1>8, <1>9

(* No block of a shape whose strides move takes more steps than its shape   *)
(* allows, also when its tiles do not fit (matmul.cu:101-140).              *)
THEOREM MatmulStepsRunOut == Spec => StepsRunOut
<1>1. ASSUME TypeOK, TypeOK', \A x \in Tile : Stride(x) > 0, [Next]_vars, ~UNCHANGED vars
      PROVE  /\ \A t \in Thread : Left(t) \in Nat /\ Left(t)' \in Nat /\ Left(t)' <= Left(t)
             /\ \E t \in Thread : Left(t)' < Left(t)
  <2>1. shape' = shape /\ Thread' = Thread /\ 0 \in Thread
    BY <1>1, ShapeStays, Counts DEF TypeOK, Thread
  <2>2. \A t \in Thread : Left(t) \in Nat
    BY <1>1, RoundType
  <2>3. \A t \in Thread : Left(t)' \in Nat
    <3>1. (\A t \in Thread : Left(t) \in Nat)'
      BY <1>1, RoundType, PTL
    <3>2. QED
      BY <2>1, <3>1
  <2>4. CASE \E t \in Thread : Step(t)
    <3>1. PICK t \in Thread : Step(t)
      BY <2>4
    <3>2. Left(t)' < Left(t) /\ \A u \in Thread \ {t} : Left(u)' = Left(u)
      BY <1>1, <2>1, <3>1, ThreadLeft, SameRound
    <3>3. QED
      BY <2>2, <2>3, <3>2
  <2>5. CASE TilesReady
    <3>1. base' = base /\ \A t \in Thread : LeftInRound(t)' < LeftInRound(t)
      <4>1. /\ base' = base /\ i' = i
            /\ \A t \in Thread : pc[t] = "wait" /\ pc'[t] = "compute" /\ i[t] \in Nat
            /\ shape.BK \in Nat
        BY <1>1, <2>5, ShapeType DEF TilesReady, TypeOK
      <4>2. QED
        BY <2>1, <4>1 DEF LeftInRound, Remaining
    <3>2. \A t \in Thread : Left(t)' < Left(t)
      BY <1>1, <2>1, <3>1, SameRound
    <3>3. QED
      BY <2>1, <2>2, <2>3, <3>2
  <2>6. CASE TilesUsed
    <3>1. \A t \in Thread : Left(t)' < Left(t)
      BY <1>1, <2>1, <2>6, NextRound
    <3>2. QED
      BY <2>1, <2>2, <2>3, <3>1
  <2>7. QED
    BY <1>1, <2>4, <2>5, <2>6 DEF Next, Ended
<1>2. QED
  BY <1>1, MatmulTypeCorrect, PTL DEF Spec, StepsRunOut

=============================================================================
