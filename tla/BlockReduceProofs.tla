-------------------------- MODULE BlockReduceProofs ---------------------------
(***************************************************************************)
(* Proofs about BlockReduce, for every size of a block that is whole warps *)
(* and every size of a row: the kernels race nowhere, block_reduce returns *)
(* the sum of its call, the row kernels normalise what they are sure to    *)
(* normalise, and warp_reduce_sum never ends.  No block is ever stuck, and *)
(* the steps of the other kernels run out.                                 *)
(***************************************************************************)
EXTENDS BlockReduce, Remainders, TLAPS

USE ReduceAssumption DEF ReduceAssumption

(* Sums are sums.                                                          *)
LEMMA AddType == ASSUME NEW x \in Sum, NEW y \in Sum PROVE Add(x, y) \in Sum
BY DEF Sum, Add, Capped

LEMMA OnlyType == ASSUME NEW S PROVE Only(S) \in Sum
BY DEF Sum, Only

LEMMA SumOverType == ASSUME NEW S PROVE SumOver(S) \in Sum
BY DEF Sum, SumOver

(* The threads of a block are the lanes of its warps.                      *)
LEMMA Lanes0 ==
  /\ 0 \in Thread /\ 0 \in Warp /\ W <= B
  /\ \A t \in Thread :
       /\ t \div W \in Warp
       /\ t \in Lanes(t \div W)
       /\ t % W \in 0 .. W - 1
       /\ t % W \in Thread
  /\ \A w \in Warp : w * W \in Lanes(w) /\ (w * W) % W = 0
<1>1. PICK m \in Nat : B = m * W
  BY Quotient
<1>2. m >= 1
  BY <1>1
<1>3. B \div W = m
  <2>1. 0 \in 0 .. W - 1 /\ B = m * W + 0
    BY <1>1
  <2>2. (m * W + 0) \div W = m
    BY <2>1, <1>1, WholePart
  <2>3. QED
    BY <2>1, <2>2
<1>4. W <= B
  <2>1. 1 * W <= m * W
    BY <1>2
  <2>2. QED
    BY <1>1, <2>1
<1>5. ASSUME NEW t \in Thread
      PROVE  /\ t \div W \in Warp
             /\ t \in Lanes(t \div W)
             /\ t % W \in 0 .. W - 1
             /\ t % W \in Thread
  <2>0. t \in Nat /\ t < B
    BY DEF Thread
  <2> DEFINE q == t \div W
  <2>1. q \in Nat /\ t % W \in 0 .. W - 1 /\ t = q * W + (t % W)
    BY <2>0, Division
  <2> HIDE DEF q
  <2>2. q < m
    <3>1. ASSUME q >= m PROVE FALSE
      <4>1. q * W >= m * W
        BY <2>1, <1>1, <3>1
      <4>2. QED
        BY <1>1, <2>0, <2>1, <4>1
    <3>2. QED
      BY <1>1, <2>1, <3>1
  <2>3. t % W \in Thread
    BY <1>4, <2>1 DEF Thread
  <2> USE DEF q
  <2>4. QED
    BY <1>3, <2>1, <2>2, <2>3 DEF Warp, Lanes
<1>6. ASSUME NEW w \in Warp
      PROVE  w * W \in Lanes(w) /\ (w * W) % W = 0
  <2>1. w \in Nat /\ w < m
    BY <1>1, <1>3 DEF Warp
  <2>2. w * W + W <= m * W
    BY <1>1, <2>1, MultipleGap
  <2>3. w * W \in Nat /\ w * W + 0 = w * W
    BY <2>1
  <2>4. (w * W + 0) \div W = w
    BY <2>1, WholePart
  <2>5. w * W \in Thread
    BY <1>1, <2>2, <2>3 DEF Thread
  <2>6. QED
    BY <2>1, <2>3, <2>4, <2>5, Multiple DEF Lanes
<1>7. QED
  BY <1>2, <1>3, <1>4, <1>5, <1>6 DEF Thread, Warp

(* The lanes of a warp, by their number in it.                             *)
LEMMA LaneAt ==
  ASSUME NEW w \in Warp, NEW r \in 0 .. W - 1
  PROVE  w * W + r \in Lanes(w) /\ (w * W + r) % W = r
<1>1. PICK m \in Nat : B = m * W
  BY Quotient
<1>2. B \div W = m
  <2>1. B = m * W + 0 /\ 0 \in 0 .. W - 1
    BY <1>1
  <2>2. (m * W + 0) \div W = m
    BY <1>1, <2>1, WholePart
  <2>3. QED
    BY <2>1, <2>2
<1>3. w \in Nat /\ w < m
  BY <1>1, <1>2 DEF Warp
<1>4. w * W + W <= m * W
  BY <1>1, <1>3, MultipleGap
<1>5. w * W \in Nat
  BY <1>3
<1>6. w * W + r \in Thread
  BY <1>1, <1>4, <1>5 DEF Thread
<1>7. (w * W + r) \div W = w /\ (w * W + r) % W = r
  BY <1>3, WholePart, Remainder
<1>8. QED
  BY <1>6, <1>7 DEF Lanes

LEMMA LaneOf ==
  ASSUME NEW w \in Warp, NEW t \in Lanes(w)
  PROVE  t \in Thread /\ t \in Nat /\ t \div W = w /\ t = w * W + (t % W) /\ t % W \in 0 .. W - 1
<1>1. t \in Thread /\ t \in Nat /\ t \div W = w
  BY DEF Lanes, Thread
<1>2. QED
  BY <1>1, Division

(* A loop over the row starts at a thread's number, and advances by a block *)
(* at most.                                                                *)
LEMMA LoopBounds ==
  /\ \A t \in Thread : First(t) \in Thread
  /\ Stride \in 1 .. B
BY Lanes0 DEF First, Stride, Thread

(* A row is at most C long, and its elements are values a sum may have.     *)
LEMMA RowSize ==
  ASSUME TypeOK
  PROVE  /\ size \in Nat /\ size <= C
         /\ Elements \subseteq Column /\ Elements \subseteq Value
         /\ Junk \notin Elements /\ Junk \in Value
<1>1. size \in 0 .. C
  BY DEF TypeOK
<1>2. QED
  BY <1>1 DEF Elements, Column, Value, Junk

(* A launch runs one kernel, on one pair of arrays.                        *)
LEMMA KernelStays == [Next]_vars => UNCHANGED <<kernel, inplace, size>>
BY DEF Next, Step, Gather, Gathered, Scale, Scaled, Publish, AfterPublish, Read, Return,
   WarpReduce, Shuffle, CubBlockReduce, Fence, Ended, vars
-----------------------------------------------------------------------------
(* The labels each kernel goes through; block_redude_sum stays at its first *)
(* shuffle, with its first mask.                                           *)
Labels(k) ==
  CASE k = "rmsnorm_v0" -> {"gather", "collect", "scale", "done"}
    [] k = "rmsnorm_v1" -> {"gather", "collect", "publish", "wait", "read", "scale", "done"}
    [] k = "block_reduce" -> {"shuffle", "publish", "wait", "read", "reshuffle", "return",
                              "fence", "done"}
    [] k = "block_redude_sum" -> {"shuffle"}

Shape ==
  /\ \A t \in Thread : pc[t] \in Labels(kernel)
  /\ kernel = "block_redude_sum" => \A w \in Warp : dist[w] = W \div 2

(* The source of a shuffle is a thread.                                    *)
LEMMA SourceType ==
  ASSUME TypeOK, Shape, NEW w \in Warp, NEW t \in Lanes(w)
  PROVE  Source(t, w, dist[w]) \in Thread
<1> DEFINE d == dist[w]
<1>1. t \in Thread /\ Lanes(w) \subseteq Thread
  BY DEF Lanes
<1>2. CASE kernel = "block_redude_sum"
  <2>1. d \in Nat \ {0} /\ W = 2 * d /\ t \in Nat
    <3>1. d = W \div 2
      BY <1>2 DEF Shape
    <3>2. QED
      BY <1>1, <3>1 DEF Thread
  <2> DEFINE q == t \div d
             r == t % d
  <2>2. q \in Nat /\ r \in 0 .. d - 1 /\ t = q * d + r
    BY <2>1, Division
  <2>3. CASE q % 2 = 0
    <3>1. PICK p \in Nat : q = p * 2
      BY <2>2, <2>3, Quotient
    <3>2. PICK m \in Nat : B = m * W
      BY Quotient
    <3>3. t = p * W + r
      BY <2>1, <2>2, <3>1
    <3>4. p < m
      <4>1. ASSUME p >= m PROVE FALSE
        <5>1. p * W >= m * W
          BY <3>1, <3>2, <4>1
        <5>2. QED
          BY <1>1, <2>2, <3>1, <3>2, <3>3, <5>1 DEF Thread
      <4>2. QED
        BY <3>1, <3>2, <4>1
    <3>5. p * W + W <= m * W
      BY <3>1, <3>2, <3>4, MultipleGap
    <3>6. t + d < B
      BY <2>1, <2>2, <3>2, <3>3, <3>5
    <3>7. QED
      BY <1>2, <2>1, <2>3, <3>6 DEF Source, Thread
  <2>4. CASE q % 2 # 0
    <3> HIDE DEF q, r
    <3>1. q >= 1
      BY <2>2, <2>4
    <3>2. 1 * d <= q * d
      BY <2>1, <2>2, <3>1
    <3>3. t - d \in Thread
      BY <1>1, <2>1, <2>2, <3>2 DEF Thread
    <3>4. Source(t, w, d) = t - d
      BY <1>2, <2>4 DEF Source, q
    <3>5. QED
      BY <3>3, <3>4
  <2>5. QED
    BY <2>3, <2>4
<1>3. CASE kernel # "block_redude_sum"
  BY <1>1, <1>3 DEF Source
<1>4. QED
  BY <1>2, <1>3

LEMMA ShuffleType ==
  ASSUME TypeOK, Shape, NEW w \in Warp, Shuffle(w)
  PROVE  TypeOK' /\ Shape'
<1>0. PICK label \in {"shuffle", "reshuffle"} : \A t \in Lanes(w) : pc[t] = label
  BY DEF Shuffle
<1>1. /\ \A t \in Lanes(w) : t \in Thread
      /\ w * W \in Lanes(w)
      /\ dist[w] \in 0 .. W
  BY Lanes0 DEF Lanes, TypeOK
<1>2. CASE dist[w] > 0
  <2>1. /\ part' = [t \in Thread |-> IF t \in Lanes(w)
                     THEN Add(part[t], part[Source(t, w, dist[w])]) ELSE part[t]]
        /\ dist' = [dist EXCEPT ![w] = NextDist(@)]
        /\ UNCHANGED <<kernel, inplace, size, pc, col, total, call, shared, out>>
    BY <1>2 DEF Shuffle
  <2>2. part' \in [Thread -> Sum]
    BY <2>1, SourceType, AddType DEF TypeOK
  <2>3. NextDist(dist[w]) \in 0 .. W
    BY <1>1, <1>2 DEF NextDist
  <2>4. TypeOK'
    BY <2>1, <2>2, <2>3 DEF TypeOK
  <2>5. kernel = "block_redude_sum" => dist' = dist
    BY <2>1 DEF NextDist, TypeOK
  <2>6. QED
    BY <2>1, <2>4, <2>5 DEF Shape
<1>3. CASE ~(dist[w] > 0)
  <2>1. PICK l \in {"shuffle", "reshuffle"} :
          /\ \A t \in Lanes(w) : pc[t] = l
          /\ Goto(Lanes(w), IF l = "shuffle" THEN "publish" ELSE "return")
          /\ dist' = [dist EXCEPT ![w] = W \div 2]
          /\ UNCHANGED <<kernel, inplace, size, part, col, total, call, shared, out>>
    BY <1>3 DEF Shuffle
  <2>2. W \div 2 \in 1 .. W
    OBVIOUS
  <2>3. kernel = "block_reduce"
    <3>1. kernel # "block_redude_sum"
      BY <1>1, <1>3, <2>2 DEF Shape
    <3>2. pc[w * W] \in {"shuffle", "reshuffle"} /\ pc[w * W] \in Labels(kernel)
      BY <1>1, <2>1 DEF Shape
    <3>3. QED
      BY <3>1, <3>2 DEF Labels, TypeOK
  <2>4. TypeOK'
    BY <2>1, <2>2 DEF TypeOK, Goto, Label
  <2>5. QED
    BY <2>1, <2>3, <2>4 DEF Shape, Goto, Labels
<1>4. QED
  BY <1>2, <1>3

(* Every step keeps the types and the shape.                               *)
LEMMA ShapeIsKept == Spec => [](TypeOK /\ Shape)
<1> DEFINE Inv == TypeOK /\ Shape
<1>1. Init => Inv
  <2> SUFFICES ASSUME Init PROVE Inv
    OBVIOUS
  <2>1. \A t \in Thread : First(t) \in 0 .. B + C
    BY LoopBounds DEF Thread
  <2>2. W \div 2 \in 0 .. W
    OBVIOUS
  <2>3. \A x : Only(x) \in Sum
    BY OnlyType
  <2>4. part \in [Thread -> Sum]
    BY <2>3 DEF Init, Brings
  <2>5. TypeOK
    <3>1. inplace \in BOOLEAN
      BY DEF Init
    <3>2. pc \in [Thread -> Label]
      BY DEF Init, Label
    <3>3. col \in [Thread -> 0 .. B + C] /\ dist \in [Warp -> 0 .. W]
      BY <2>1, <2>2 DEF Init
    <3>4. total \in [Thread -> Sum] /\ shared \in [Warp -> Sum]
      BY <2>3 DEF Init
    <3>5. call \in [Thread -> 1 .. 2] /\ out \in [Column -> {"none", "out", "bad"}]
      BY DEF Init
    <3>6. kernel \in Kernels /\ size \in Sizes[kernel]
      BY DEF Init
    <3>7. QED
      BY <2>4, <3>1, <3>2, <3>3, <3>4, <3>5, <3>6 DEF TypeOK
  <2>6. QED
    BY <2>5 DEF Init, Shape, Labels, Row
<1>2. ASSUME Inv, [Next]_vars
      PROVE  Inv'
  <2>0. \A x : Only(x) \in Sum /\ SumOver(x) \in Sum
    BY OnlyType, SumOverType
  <2>1. ASSUME NEW t \in Thread, Gather(t)
        PROVE  Inv'
    <3>1. Add(part[t], Only({IF Intact(col[t]) THEN col[t] ELSE Junk})) \in Sum
      BY <1>2, <2>0, AddType DEF TypeOK
    <3>2. col[t] + Stride \in 0 .. B + C
      BY <1>2, <2>1, LoopBounds, RowSize DEF Gather, TypeOK
    <3>3. TypeOK'
      BY <1>2, <2>1, <3>1, <3>2 DEF Gather, TypeOK
    <3>4. QED
      BY <1>2, <2>1, <3>3 DEF Gather, Shape
  <2>2. ASSUME NEW t \in Thread, Gathered(t)
        PROVE  Inv'
    <3>1. TypeOK'
      BY <1>2, <2>2 DEF Gathered, Goto, TypeOK, Label
    <3>2. QED
      BY <1>2, <2>2, <3>1 DEF Gathered, Goto, Shape, Labels, TypeOK
  <2>3. ASSUME NEW t \in Thread, Scale(t)
        PROVE  Inv'
    <3>1. col[t] + Stride \in 0 .. B + C
      BY <1>2, <2>3, LoopBounds, RowSize DEF Scale, TypeOK
    <3>2. TypeOK'
      BY <1>2, <2>3, <3>1 DEF Scale, TypeOK
    <3>3. QED
      BY <1>2, <2>3, <3>2 DEF Scale, Shape
  <2>4. ASSUME NEW t \in Thread, Scaled(t)
        PROVE  Inv'
    <3>1. TypeOK'
      BY <1>2, <2>4 DEF Scaled, Goto, TypeOK, Label
    <3>2. QED
      BY <1>2, <2>4, <3>1 DEF Scaled, Goto, Shape, Labels, TypeOK
  <2>5. ASSUME NEW t \in Thread, Publish(t)
        PROVE  Inv'
    <3>1. shared' \in [Warp -> Sum]
      BY <1>2, <2>5, Lanes0 DEF Publish, TypeOK
    <3>2. TypeOK'
      BY <1>2, <2>5, <3>1 DEF Publish, Goto, TypeOK, Label
    <3>3. QED
      BY <1>2, <2>5, <3>2 DEF Publish, Goto, Shape, Labels, TypeOK
  <2>6. ASSUME NEW t \in Thread, AfterPublish(t)
        PROVE  Inv'
    <3>1. TypeOK'
      BY <1>2, <2>6 DEF AfterPublish, Goto, TypeOK, Label
    <3>2. QED
      BY <1>2, <2>6, <3>1 DEF AfterPublish, Goto, Shape, Labels, TypeOK
  <2>7. ASSUME NEW t \in Thread, Read(t)
        PROVE  Inv'
    <3>1. CASE Row
      <4>1. /\ total' = [total EXCEPT ![t] = shared[0]]
            /\ col' = [col EXCEPT ![t] = First(t)]
            /\ Goto({t}, "scale")
            /\ UNCHANGED <<kernel, inplace, size, part, call, dist, shared, out>>
        BY <2>7, <3>1 DEF Read
      <4>2. First(t) \in 0 .. B + C
        BY LoopBounds DEF Thread
      <4>3. shared[0] \in Sum
        BY <1>2, Lanes0 DEF TypeOK
      <4>4. TypeOK'
        BY <1>2, <4>1, <4>2, <4>3 DEF Goto, TypeOK, Label
      <4>5. QED
        BY <1>2, <2>7, <3>1, <4>1, <4>4 DEF Goto, Shape, Labels, TypeOK, Row, Read
    <3>2. CASE ~Row
      <4>1. /\ part' = IF t >= W THEN part
                       ELSE [part EXCEPT ![t] = IF t \in Warp THEN shared[t] ELSE Only({})]
            /\ Goto({t}, IF t < W THEN "reshuffle" ELSE "return")
            /\ UNCHANGED <<kernel, inplace, size, total, col, call, dist, shared, out>>
        BY <2>7, <3>2 DEF Read
      <4>2. part' \in [Thread -> Sum]
        BY <1>2, <2>0, <4>1 DEF TypeOK
      <4>3. TypeOK'
        BY <1>2, <4>1, <4>2 DEF Goto, TypeOK, Label
      <4>4. QED
        BY <1>2, <2>7, <3>2, <4>1, <4>3 DEF Goto, Shape, Labels, TypeOK, Row, Read
    <3>3. QED
      BY <3>1, <3>2
  <2>8. ASSUME NEW t \in Thread, Return(t)
        PROVE  Inv'
    <3>1. Brings(t, 2) \in Sum
      BY <2>0 DEF Brings
    <3>2. TypeOK'
      BY <1>2, <2>8, <3>1 DEF Return, Goto, TypeOK, Label
    <3>3. QED
      BY <1>2, <2>8, <3>2 DEF Return, Goto, Shape, Labels, TypeOK
  <2>9. ASSUME NEW w \in Warp, WarpReduce(w)
        PROVE  Inv'
    <3>1. \A t \in Thread : First(t) \in 0 .. B + C
      BY LoopBounds DEF Thread
    <3>2. TypeOK'
      BY <1>2, <2>0, <2>9, <3>1 DEF WarpReduce, Goto, TypeOK, Label
    <3>3. QED
      BY <1>2, <2>9, <3>2 DEF WarpReduce, Goto, Shape, Labels
  <2>10. ASSUME NEW w \in Warp, Shuffle(w)
         PROVE  Inv'
    BY <1>2, <2>10, ShuffleType
  <2>11. CASE CubBlockReduce
    <3>1. TypeOK'
      BY <1>2, <2>0, <2>11 DEF CubBlockReduce, Goto, TypeOK, Label
    <3>2. QED
      BY <1>2, <2>11, <3>1 DEF CubBlockReduce, Goto, Shape, Labels
  <2>12. CASE Fence
    <3>1. TypeOK'
      BY <1>2, <2>12 DEF Fence, Goto, TypeOK, Label
    <3>2. QED
      BY <1>2, <2>12, <3>1 DEF Fence, Goto, Shape, Labels, TypeOK
  <2>13. CASE UNCHANGED vars
    BY <1>2, <2>13 DEF vars, TypeOK, Shape
  <2>14. QED
    BY <1>2, <2>1, <2>2, <2>3, <2>4, <2>5, <2>6, <2>7, <2>8, <2>9, <2>10, <2>11, <2>12,
       <2>13 DEF Next, Step, Ended
<1>3. QED
  BY <1>1, <1>2, PTL DEF Spec

(* The variables keep their types, whatever the kernel, the block and the   *)
(* row.                                                                    *)
THEOREM ReduceTypeCorrect == Spec => []TypeOK
BY ShapeIsKept, PTL

(* No thread leaves warp_reduce_sum of rmsnorm_kernel.cu, whatever the      *)
(* block: "mask >> 1" leaves the mask at half a warp.                      *)
THEOREM WarpSumNeverReturns == Spec => []NeverReturns
<1>1. TypeOK /\ Shape => NeverReturns
  BY DEF Shape, Labels, NeverReturns
<1>2. QED
  BY <1>1, ShapeIsKept, PTL
-----------------------------------------------------------------------------
(* In the kernels with barriers all threads are between the same two: at    *)
(* most one call apart, and never one to publish while another has to read. *)
Together ==
  \/ \A t \in Thread : pc[t] \in {"gather", "collect"}
  \/ \A t \in Thread : call[t] = 1 /\ pc[t] \in {"shuffle", "publish", "wait"}
  \/ \A t \in Thread :
       \/ call[t] = 1 /\ pc[t] \in {"read", "reshuffle", "return", "scale"}
       \/ call[t] = 1 /\ pc[t] = "done" /\ Row
       \/ call[t] = 2 /\ pc[t] = "fence"
  \/ \A t \in Thread : call[t] = 2 /\ pc[t] \in {"shuffle", "publish", "wait"}
  \/ \A t \in Thread : call[t] = 2 /\ pc[t] \in {"read", "reshuffle", "return", "done"}

InStep ==
  /\ kernel # "rmsnorm_v0" => Together
  /\ Row => \A t \in Thread : call[t] = 1

LEMMA InStepStep ==
  ASSUME TypeOK, Shape, InStep, [Next]_vars
  PROVE  InStep'
<1>0. /\ pc \in [Thread -> Label] /\ call \in [Thread -> 1 .. 2]
      /\ 0 \in Thread
      /\ Row' <=> Row
      /\ kernel' = kernel
  BY KernelStays, Lanes0 DEF TypeOK, Row
<1>1. ASSUME NEW t \in Thread, Gather(t) \/ Gathered(t)
      PROVE  InStep'
  BY <1>0, <1>1 DEF Gather, Gathered, Goto, InStep, Together
<1>2. ASSUME NEW t \in Thread, Scale(t) \/ Scaled(t)
      PROVE  InStep'
  <2>1. Row
    BY <1>2 DEF Scale, Scaled, Shape, Labels, Row, TypeOK
  <2>2. QED
    BY <1>0, <1>2, <2>1 DEF Scale, Scaled, Goto, InStep, Together
<1>3. ASSUME NEW t \in Thread, Publish(t)
      PROVE  InStep'
  BY <1>0, <1>3 DEF Publish, Goto, InStep, Together
<1>4. ASSUME NEW t \in Thread, AfterPublish(t)
      PROVE  InStep'
  BY <1>0, <1>4 DEF AfterPublish, Goto, InStep, Together
<1>5. ASSUME NEW t \in Thread, Read(t)
      PROVE  InStep'
  <2>1. /\ UNCHANGED <<kernel, call>>
        /\ Goto({t}, IF Row THEN "scale" ELSE IF t < W THEN "reshuffle" ELSE "return")
        /\ pc[t] = "read"
    BY <1>5 DEF Read
  <2>2. QED
    BY <1>0, <2>1 DEF Goto, InStep, Together
<1>6. ASSUME NEW t \in Thread, Return(t)
      PROVE  InStep'
  <2>1. ~Row
    BY <1>6 DEF Return, Shape, Labels, Row, TypeOK
  <2>2. QED
    BY <1>0, <1>6, <2>1 DEF Return, Goto, InStep, Together
<1>7. ASSUME NEW w \in Warp, WarpReduce(w)
      PROVE  InStep'
  BY <1>0, <1>7 DEF WarpReduce, InStep
<1>8. ASSUME NEW w \in Warp, Shuffle(w)
      PROVE  InStep'
  <2>1. /\ UNCHANGED <<kernel, call>>
        /\ \/ UNCHANGED pc
           \/ /\ \A t \in Lanes(w) : pc[t] = "shuffle"
              /\ Goto(Lanes(w), "publish")
           \/ /\ \A t \in Lanes(w) : pc[t] = "reshuffle"
              /\ Goto(Lanes(w), "return")
    BY <1>8 DEF Shuffle
  <2>2. QED
    BY <1>0, <2>1 DEF Goto, InStep, Together
<1>9. CASE CubBlockReduce
  <2>1. Row
    BY <1>9 DEF CubBlockReduce, Row
  <2>2. QED
    BY <1>0, <1>9, <2>1 DEF CubBlockReduce, Goto, InStep, Together
<1>10. CASE Fence
  <2>1. \A t \in Thread : pc'[t] = "shuffle" /\ call'[t] = call[t]
    BY <1>10 DEF Fence, Goto
  <2>2. \A t \in Thread : call[t] = 2 \/ kernel = "rmsnorm_v0"
    BY <1>0, <1>10 DEF Fence, InStep, Together
  <2>3. QED
    BY <1>0, <1>10, <2>1, <2>2 DEF Fence, InStep, Together
<1>11. CASE UNCHANGED vars
  BY <1>0, <1>11 DEF vars, InStep, Together
<1>12. QED
  BY <1>1, <1>2, <1>3, <1>4, <1>5, <1>6, <1>7, <1>8, <1>9, <1>10, <1>11
     DEF Next, Step, Ended

LEMMA InStepAlways == Spec => [](TypeOK /\ Shape /\ InStep)
<1>1. Init => InStep
  BY DEF Init, InStep, Together, Row
<1>2. QED
  BY <1>1, ShapeIsKept, InStepStep, PTL DEF Spec

(* No cell of shared memory is written while a thread has still to read it, *)
(* for every number of warps: also when block_reduce is called again.      *)
THEOREM ReduceNoRace == Spec => []NoRace
<1>1. TypeOK /\ Shape /\ InStep => NoRace
  <2> SUFFICES ASSUME TypeOK, Shape, InStep,
                      NEW t \in Thread, NEW u \in Thread, pc[t] = "publish"
               PROVE  pc[u] # "read"
    BY DEF NoRace
  <2>1. kernel # "rmsnorm_v0"
    BY DEF Shape, Labels
  <2>2. QED
    BY <2>1 DEF InStep, Together
<1>2. QED
  BY <1>1, InStepAlways, PTL
-----------------------------------------------------------------------------
(* The row kernels.  A thread that starts at r and is at n has added up the *)
(* columns of remainder r below n.                                         *)
RowPart(r, n) == Only({k \in Elements : k % Stride = r /\ k < n})

RowOK == Row /\ (kernel = "rmsnorm_v0" => ~inplace)

LEMMA FirstResidue ==
  ASSUME NEW t \in Thread
  PROVE  First(t) \in 0 .. Stride - 1 /\ First(t) % Stride = First(t)
<1>1. First(t) \in 0 .. Stride - 1 /\ Stride \in Nat \ {0}
  BY Lanes0 DEF First, Stride, Thread
<1>2. 0 * Stride + First(t) = First(t)
  BY <1>1
<1>3. (0 * Stride + First(t)) % Stride = First(t)
  BY <1>1, Remainder
<1>4. QED
  BY <1>1, <1>2, <1>3

(* Before the first column it has none, ...                                *)
LEMMA RowStart ==
  ASSUME NEW t \in Thread
  PROVE  RowPart(First(t), First(t)) = Only({})
<1>1. ASSUME NEW k \in Elements, k % Stride = First(t), k < First(t)
      PROVE  FALSE
  <2>1. First(t) \in 0 .. Stride - 1 /\ Stride \in Nat \ {0} /\ k \in 0 .. Stride - 1
    BY <1>1, FirstResidue, LoopBounds DEF Elements
  <2>2. (0 * Stride + k) % Stride = k /\ 0 * Stride + k = k
    BY <2>1, Remainder
  <2>3. QED
    BY <1>1, <2>1, <2>2
<1>2. {k \in Elements : k % Stride = First(t) /\ k < First(t)} = {}
  BY <1>1
<1>3. QED
  BY <1>2 DEF RowPart

(* ... each round adds the next one, ...                                   *)
LEMMA RowStep ==
  ASSUME TypeOK, NEW r \in Nat, NEW c \in Elements, c % Stride = r
  PROVE  Add(RowPart(r, c), Only({c})) = RowPart(r, c + Stride)
<1>1. Stride \in Nat \ {0} /\ c \in Nat
  BY LoopBounds DEF Elements
<1>2. ASSUME NEW k \in Elements
      PROVE  k % Stride = r /\ k < c + Stride <=> (k % Stride = r /\ k < c) \/ k = c
  <2>1. k \in Nat
    BY DEF Elements
  <2>2. k % Stride = r /\ k < c + Stride => k <= c
    BY <1>1, <2>1, ResidueGap
  <2>3. QED
    BY <1>1, <2>1, <2>2
<1>3. ASSUME NEW k \in Value
      PROVE  Capped(RowPart(r, c)[k] + Only({c})[k]) = RowPart(r, c + Stride)[k]
  <2>1. CASE k \in Elements
    <3>1. /\ RowPart(r, c)[k] = IF k % Stride = r /\ k < c THEN 1 ELSE 0
          /\ Only({c})[k] = IF k = c THEN 1 ELSE 0
          /\ RowPart(r, c + Stride)[k] = IF k % Stride = r /\ k < c + Stride THEN 1 ELSE 0
      BY <2>1 DEF RowPart, Only
    <3>2. ~(k < c /\ k = c)
      BY <1>1
    <3>3. QED
      BY <1>2, <2>1, <3>1, <3>2 DEF Capped
  <2>2. CASE k \notin Elements
    <3>1. /\ RowPart(r, c)[k] = 0 /\ Only({c})[k] = 0
          /\ RowPart(r, c + Stride)[k] = 0
      BY <2>2 DEF RowPart, Only
    <3>2. QED
      BY <3>1 DEF Capped
  <2>3. QED
    BY <2>1, <2>2
<1>4. RowPart(r, c + Stride) = [k \in Value |-> RowPart(r, c + Stride)[k]]
  BY DEF RowPart, Only
<1>5. QED
  BY <1>3, <1>4 DEF Add

(* ... and beyond the row nothing is left.                                 *)
LEMMA RowEnd ==
  ASSUME TypeOK, NEW r \in Nat, NEW n \in Int, n >= size
  PROVE  RowPart(r, n) = RowPart(r, size)
<1>1. {k \in Elements : k % Stride = r /\ k < n} = {k \in Elements : k % Stride = r /\ k < size}
  BY RowSize DEF Elements
<1>2. QED
  BY <1>1 DEF RowPart

(* Threads that start at every remainder once have the row between them.   *)
LEMMA RowSum ==
  ASSUME TypeOK, NEW S \in SUBSET Thread,
         \A t \in S : part[t] = RowPart(First(t), size),
         \A r \in 0 .. Stride - 1 : \E t \in S : First(t) = r,
         \A t, u \in S : First(t) = First(u) => t = u
  PROVE  SumOver(S) = Only(Elements)
<1>1. ASSUME NEW k \in Elements
      PROVE  /\ \E t \in S : part[t][k] = 1 /\ \A u \in S \ {t} : part[u][k] = 0
             /\ ~ \A t \in S : part[t][k] = 0
  <2>1. k \in Nat /\ k < size /\ Stride \in Nat \ {0}
    BY LoopBounds, RowSize DEF Elements
  <2>2. k % Stride \in 0 .. Stride - 1
    BY <2>1, Division
  <2>3. PICK t \in S : First(t) = k % Stride
    BY <2>2
  <2>4. \A u \in S : part[u][k] = IF First(u) = k % Stride THEN 1 ELSE 0
    BY <2>1, RowSize DEF RowPart, Only
  <2>5. part[t][k] = 1
    BY <2>3, <2>4
  <2>6. \A u \in S \ {t} : part[u][k] = 0
    BY <2>3, <2>4
  <2>7. QED
    BY <2>3, <2>5, <2>6
<1>2. ASSUME NEW k \in Value, k \notin Elements
      PROVE  \A t \in S : part[t][k] = 0
  <2>1. ASSUME NEW r PROVE RowPart(r, size)[k] = 0
    BY <1>2 DEF RowPart, Only
  <2>2. QED
    BY <2>1
<1>3. ASSUME NEW k \in Value
      PROVE  SumOver(S)[k] = Only(Elements)[k]
  <2>1. CASE k \in Elements
    BY <1>1, <2>1 DEF SumOver, Only
  <2>2. CASE k \notin Elements
    BY <1>2, <2>2 DEF SumOver, Only
  <2>3. QED
    BY <2>1, <2>2
<1>4. /\ SumOver(S) = [k \in Value |-> SumOver(S)[k]]
      /\ Only(Elements) = [k \in Value |-> Only(Elements)[k]]
  BY DEF SumOver, Only
<1>5. QED
  BY <1>3, <1>4

(* What a thread has added up, and what it has written.                    *)
Gathering ==
  \A t \in Thread :
    /\ pc[t] \in {"gather", "scale"} => col[t] % Stride = First(t)
    /\ pc[t] = "gather" => part[t] = RowPart(First(t), col[t])
    /\ pc[t] = "collect" => part[t] = RowPart(First(t), size)

Passed(t, i) == pc[t] = "done" \/ (pc[t] = "scale" /\ i < col[t])

(* In v1 every thread gets the sum, and writes the columns it starts at.   *)
V1Part ==
  /\ pc[0] = "publish" => part[0] = Only(Elements)
  /\ pc[0] = "wait" => shared[0] = Only(Elements)
  /\ \A t \in Thread : pc[t] = "read" => shared[0] = Only(Elements)
  /\ \A t \in Thread : pc[t] = "scale" => total[t] = Only(Elements)
  /\ \A i \in Elements : out[i] = IF Passed(i % B, i) THEN "out" ELSE "none"

(* In v0 every first lane gets it, and the first lanes of all warps write   *)
(* the same columns.                                                       *)
V0Part ==
  /\ \A t \in Thread : t % W = 0 /\ pc[t] = "scale" => total[t] = Only(Elements)
  /\ \A i \in Elements : i % W = 0 => out[i] # "bad"
  /\ \A t \in Thread, i \in Elements :
       t % W = 0 /\ i % W = 0 /\ Passed(t, i) => out[i] = "out"

RowInv ==
  RowOK => /\ Gathering
           /\ kernel = "rmsnorm_v1" => V1Part
           /\ kernel = "rmsnorm_v0" => V0Part

LEMMA ElementThread ==
  \A i \in Elements : i % B \in Thread /\ i \in Nat
<1>1. ASSUME NEW i \in Elements PROVE i % B \in Thread /\ i \in Nat
  <2>1. i \in Nat
    BY DEF Elements
  <2>2. i % B \in 0 .. B - 1
    BY <2>1, Division
  <2>3. QED
    BY <2>1, <2>2 DEF Thread
<1>2. QED
  BY <1>1

LEMMA RowGather ==
  ASSUME TypeOK, TypeOK', Shape, InStep, RowInv, RowOK, UNCHANGED <<kernel, inplace, size>>,
         NEW t \in Thread, Gather(t)
  PROVE  RowInv'
<1>0. /\ Stride' = Stride /\ Elements' = Elements
      /\ \A u : First(u)' = First(u)
      /\ \A r, n : RowPart(r, n)' = RowPart(r, n)
  BY DEF Stride, First, RowPart, Only, Elements
<1>1. col[t] \in Elements /\ col[t] % Stride = First(t) /\ part[t] = RowPart(First(t), col[t])
  BY DEF RowInv, Gathering, Gather, TypeOK, Elements
<1>2. Intact(col[t])
  <2>1. CASE kernel = "rmsnorm_v0"
    BY <2>1 DEF RowOK, Intact
  <2>2. CASE kernel = "rmsnorm_v1"
    <3>1. \A u \in Thread : pc[u] \in {"gather", "collect"}
      BY <2>2 DEF Gather, InStep, Together
    <3>2. out[col[t]] = "none"
      BY <1>1, <2>2, <3>1, ElementThread DEF RowInv, V1Part, Passed
    <3>3. QED
      BY <3>2 DEF Intact
  <2>3. QED
    BY <2>1, <2>2 DEF RowOK, Row
<1>3. First(t) \in Nat
  BY LoopBounds DEF Thread
<1>4. (col[t] + Stride) % Stride = First(t)
  <2>1. Stride \in Nat \ {0} /\ col[t] \in Nat
    BY <1>1, LoopBounds DEF Elements
  <2>2. QED
    BY <1>1, <2>1, StepKeepsRemainder
<1>5. /\ part' = [part EXCEPT ![t] = RowPart(First(t), col[t] + Stride)]
      /\ col' = [col EXCEPT ![t] = col[t] + Stride]
      /\ pc[t] = "gather"
      /\ UNCHANGED <<kernel, inplace, size, pc, total, call, dist, shared, out>>
  BY <1>1, <1>2, <1>3, RowStep DEF Gather
<1>6. Gathering'
  BY <1>0, <1>4, <1>5 DEF RowInv, Gathering, TypeOK
<1>7. kernel = "rmsnorm_v1" => V1Part'
  <2> SUFFICES ASSUME kernel = "rmsnorm_v1" PROVE V1Part'
    OBVIOUS
  <2>1. \A u \in Thread : pc[u] \in {"gather", "collect"}
    BY <1>5 DEF InStep, Together
  <2>2. \A u \in Thread : \A i : Passed(u, i)' = Passed(u, i)
    BY <1>5, <2>1 DEF Passed
  <2>3. 0 \in Thread
    BY Lanes0
  <2>4. QED
    BY <1>0, <1>5, <2>1, <2>2, <2>3, ElementThread DEF RowInv, V1Part, Only
<1>8. kernel = "rmsnorm_v0" => V0Part'
  <2>1. \A u \in Thread : \A i : Passed(u, i)' => Passed(u, i)
    BY <1>5 DEF Passed, TypeOK
  <2>2. QED
    BY <1>0, <1>5, <2>1 DEF RowInv, V0Part, Only
<1>9. QED
  BY <1>5, <1>6, <1>7, <1>8 DEF RowInv

LEMMA RowGathered ==
  ASSUME TypeOK, TypeOK', Shape, InStep, RowInv, RowOK, UNCHANGED <<kernel, inplace, size>>,
         NEW t \in Thread, Gathered(t)
  PROVE  RowInv'
<1>0. /\ Stride' = Stride /\ Elements' = Elements
      /\ \A u : First(u)' = First(u)
      /\ \A r, n : RowPart(r, n)' = RowPart(r, n)
  BY DEF Stride, First, RowPart, Only, Elements
<1>1. /\ pc' = [pc EXCEPT ![t] = "collect"]
      /\ pc[t] = "gather" /\ col[t] >= size
      /\ UNCHANGED <<col, part, total, call, dist, shared, out>>
  BY DEF Gathered, Goto, TypeOK
<1>2. part[t] = RowPart(First(t), size)
  <2>1. First(t) \in Nat /\ col[t] \in Int
    BY LoopBounds DEF Thread, TypeOK
  <2>2. QED
    BY <1>1, <2>1, RowEnd DEF RowInv, Gathering
<1>3. Gathering'
  BY <1>0, <1>1, <1>2 DEF RowInv, Gathering, TypeOK
<1>4. \A u \in Thread : \A i : Passed(u, i)' <=> Passed(u, i)
  BY <1>1 DEF Passed, TypeOK
<1>5. 0 \in Thread
  BY Lanes0
<1>6. kernel = "rmsnorm_v1" => V1Part'
  BY <1>0, <1>1, <1>4, <1>5, ElementThread DEF RowInv, V1Part, Only, TypeOK
<1>7. kernel = "rmsnorm_v0" => V0Part'
  BY <1>0, <1>1, <1>4 DEF RowInv, V0Part, Only, TypeOK
<1>8. QED
  BY <1>3, <1>6, <1>7 DEF RowInv

LEMMA RowScale ==
  ASSUME TypeOK, TypeOK', Shape, InStep, RowInv, RowOK, UNCHANGED <<kernel, inplace, size>>,
         NEW t \in Thread, Scale(t)
  PROVE  RowInv'
<1> DEFINE c == col[t]
           e == IF total[t] = Only(Elements) /\ Intact(c) THEN "out" ELSE "bad"
<1>0. /\ Stride' = Stride /\ Elements' = Elements
      /\ \A u : First(u)' = First(u)
      /\ \A r, n : RowPart(r, n)' = RowPart(r, n)
  BY DEF Stride, First, RowPart, Only, Elements
<1>1. c \in Elements /\ c \in Nat /\ c % Stride = First(t) /\ Stride \in Nat \ {0}
  BY LoopBounds DEF RowInv, Gathering, Scale, TypeOK, Elements
<1>2. /\ out' = [out EXCEPT ![c] = e]
      /\ col' = [col EXCEPT ![t] = c + Stride]
      /\ pc[t] = "scale" /\ pc' = pc
      /\ UNCHANGED <<part, total, call, dist, shared>>
  BY DEF Scale
<1> HIDE DEF c, e
<1>3. (c + Stride) % Stride = First(t)
  BY <1>1, StepKeepsRemainder
<1>4. Gathering'
  BY <1>0, <1>2, <1>3 DEF RowInv, Gathering, TypeOK
<1>5. ASSUME NEW i \in Elements, i % Stride = First(t)
      PROVE  i < c + Stride <=> i < c \/ i = c
  <2>1. i \in Nat
    BY DEF Elements
  <2>2. i < c + Stride => i <= c
    BY <1>1, <1>5, <2>1, ResidueGap
  <2>3. QED
    BY <1>1, <2>1, <2>2
<1>6. \A u \in Thread : u # t => \A i : Passed(u, i)' <=> Passed(u, i)
  BY <1>2 DEF Passed, TypeOK
<1>7. \A i \in Elements : i % Stride = First(t) => (Passed(t, i)' <=> Passed(t, i) \/ i = c)
  BY <1>2, <1>5 DEF Passed, TypeOK, c
<1>8. ASSUME kernel = "rmsnorm_v1" PROVE V1Part'
  <2>1. First(t) = t /\ Stride = B
    BY <1>8 DEF First, Stride
  <2>2. out[c] = "none"
    <3>1. ~Passed(t, c)
      BY <1>1, <1>2 DEF Passed, c
    <3>2. QED
      BY <1>1, <1>8, <2>1, <3>1 DEF RowInv, V1Part
  <2>3. e = "out"
    BY <1>2, <1>8, <2>2 DEF RowInv, V1Part, Intact, e, c
  <2>4. ASSUME NEW i \in Elements
        PROVE  out'[i] = IF Passed(i % B, i)' THEN "out" ELSE "none"
    <3>1. i % B \in Thread
      BY ElementThread
    <3>2. CASE i = c
      <4>1. i % Stride = First(t) /\ i % B = t
        BY <1>1, <2>1, <3>2
      <4>2. Passed(t, i)'
        BY <1>7, <3>2, <4>1
      <4>3. out'[i] = "out"
        BY <1>1, <1>2, <2>3, <3>2 DEF TypeOK
      <4>4. QED
        BY <4>1, <4>2, <4>3
    <3>3. CASE i # c
      <4>1. out'[i] = out[i]
        BY <1>2, <3>3 DEF TypeOK
      <4>2. Passed(i % B, i)' <=> Passed(i % B, i)
        BY <1>6, <1>7, <2>1, <3>1, <3>3
      <4>3. QED
        BY <1>8, <4>1, <4>2 DEF RowInv, V1Part
    <3>4. QED
      BY <3>2, <3>3
  <2>5. QED
    BY <1>0, <1>2, <1>8, <2>4 DEF RowInv, V1Part, Only
<1>9. ASSUME kernel = "rmsnorm_v0" PROVE V0Part'
  <2>1. First(t) = t % W /\ Stride = W /\ ~inplace
    BY <1>9 DEF First, Stride, RowOK
  <2>2. c % W = 0 => e = "out"
    BY <1>1, <1>2, <1>9, <2>1 DEF RowInv, V0Part, Intact, e
  <2>3. \A i \in Elements : i % W = 0 => out'[i] = (IF i = c THEN "out" ELSE out[i])
    BY <1>2, <2>2 DEF TypeOK
  <2>4. \A i \in Elements : i % W = 0 => out'[i] # "bad"
    BY <1>9, <2>3 DEF RowInv, V0Part
  <2>5. ASSUME NEW u \in Thread, NEW i \in Elements, u % W = 0, i % W = 0, Passed(u, i)'
        PROVE  out'[i] = "out"
    <3>1. CASE u = t
      BY <1>7, <1>9, <2>1, <2>3, <2>5, <3>1 DEF RowInv, V0Part
    <3>2. CASE u # t
      BY <1>6, <1>9, <2>3, <2>5, <3>2 DEF RowInv, V0Part
    <3>3. QED
      BY <3>1, <3>2
  <2>6. QED
    BY <1>0, <1>2, <1>9, <2>4, <2>5 DEF RowInv, V0Part, Only
<1>10. QED
  BY <1>4, <1>8, <1>9 DEF RowInv

LEMMA RowScaled ==
  ASSUME TypeOK, TypeOK', Shape, InStep, RowInv, RowOK, UNCHANGED <<kernel, inplace, size>>,
         NEW t \in Thread, Scaled(t)
  PROVE  RowInv'
<1>0. /\ Stride' = Stride /\ Elements' = Elements
      /\ \A u : First(u)' = First(u)
      /\ \A r, n : RowPart(r, n)' = RowPart(r, n)
  BY DEF Stride, First, RowPart, Only, Elements
<1>1. /\ pc' = [pc EXCEPT ![t] = "done"]
      /\ pc[t] = "scale" /\ col[t] >= size
      /\ UNCHANGED <<col, part, total, call, dist, shared, out>>
  BY DEF Scaled, Goto, TypeOK
<1>2. Gathering'
  BY <1>0, <1>1 DEF RowInv, Gathering, TypeOK
<1>3. \A i \in Elements : i < col[t]
  BY <1>1 DEF Elements, TypeOK
<1>4. \A u \in Thread, i \in Elements : Passed(u, i)' <=> Passed(u, i)
  BY <1>1, <1>3 DEF Passed, TypeOK
<1>5. 0 \in Thread
  BY Lanes0
<1>6. kernel = "rmsnorm_v1" => V1Part'
  BY <1>0, <1>1, <1>4, <1>5, ElementThread DEF RowInv, V1Part, Only, TypeOK
<1>7. kernel = "rmsnorm_v0" => V0Part'
  BY <1>0, <1>1, <1>4 DEF RowInv, V0Part, Only, TypeOK
<1>8. QED
  BY <1>2, <1>6, <1>7 DEF RowInv

(* A warp has every remainder of its loop, and so has the block.           *)
LEMMA RowWarpReduce ==
  ASSUME TypeOK, TypeOK', Shape, InStep, RowInv, RowOK, UNCHANGED <<kernel, inplace, size>>,
         NEW w \in Warp, WarpReduce(w)
  PROVE  RowInv'
<1>0. /\ Stride' = Stride /\ Elements' = Elements
      /\ \A u : First(u)' = First(u)
      /\ \A r, n : RowPart(r, n)' = RowPart(r, n)
      /\ kernel = "rmsnorm_v0" /\ Stride = W /\ \A t : First(t) = t % W
  BY DEF Stride, First, RowPart, Only, Elements, WarpReduce
<1>1. /\ total' = [t \in Thread |->
                IF t \notin Lanes(w) THEN total[t]
                ELSE IF t = w * W THEN SumOver(Lanes(w)) ELSE Only({Junk})]
      /\ col' = [t \in Thread |-> IF t \in Lanes(w) THEN First(t) ELSE col[t]]
      /\ pc' = [t \in Thread |-> IF t \in Lanes(w) THEN "scale" ELSE pc[t]]
      /\ \A t \in Lanes(w) : pc[t] = "collect"
      /\ UNCHANGED <<part, call, dist, shared, out>>
  BY DEF WarpReduce, Goto
<1>2. \A t \in Lanes(w) : t \in Thread /\ t \in Nat /\ t = w * W + (t % W) /\ t % W \in 0 .. W - 1
  BY LaneOf
<1>3. \A r \in 0 .. W - 1 : w * W + r \in Lanes(w) /\ (w * W + r) % W = r
  BY LaneAt
<1>4. SumOver(Lanes(w)) = Only(Elements)
  <2>1. Lanes(w) \in SUBSET Thread
    BY DEF Lanes
  <2>2. \A t \in Lanes(w) : part[t] = RowPart(First(t), size)
    BY <1>1, <1>2 DEF RowInv, Gathering
  <2>3. \A r \in 0 .. Stride - 1 : \E t \in Lanes(w) : First(t) = r
    BY <1>0, <1>3
  <2>4. \A t, u \in Lanes(w) : First(t) = First(u) => t = u
    BY <1>0, <1>2
  <2>5. QED
    BY <2>1, <2>2, <2>3, <2>4, RowSum
<1>5. ASSUME NEW t \in Lanes(w), t % W = 0 PROVE t = w * W
  <2>1. w * W \in Nat
    BY DEF Warp
  <2>2. QED
    BY <1>2, <1>5, <2>1
<1>6. Gathering'
  <2>1. \A t \in Thread : First(t) % Stride = First(t)
    BY FirstResidue
  <2>2. QED
    BY <1>0, <1>1, <2>1 DEF RowInv, Gathering, TypeOK
<1>7. \A t \in Thread : t % W = 0 /\ pc'[t] = "scale" => total'[t] = Only(Elements)
  <2>1. ASSUME NEW t \in Thread, t % W = 0, pc'[t] = "scale"
        PROVE  total'[t] = Only(Elements)
    <3>1. CASE t \in Lanes(w)
      BY <1>1, <1>4, <1>5, <2>1, <3>1
    <3>2. CASE t \notin Lanes(w)
      BY <1>0, <1>1, <2>1, <3>2 DEF RowInv, V0Part
    <3>3. QED
      BY <3>1, <3>2
  <2>2. QED
    BY <2>1
<1>8. \A t \in Thread, i \in Elements :
        t % W = 0 /\ i % W = 0 /\ Passed(t, i)' => out'[i] = "out"
  <2>1. ASSUME NEW t \in Thread, NEW i \in Elements, t % W = 0, i % W = 0, Passed(t, i)'
        PROVE  out'[i] = "out"
    <3>1. CASE t \in Lanes(w)
      <4>1. col'[t] = 0 /\ pc'[t] = "scale"
        BY <1>0, <1>1, <2>1, <3>1
      <4>2. ~(i < 0)
        BY DEF Elements
      <4>3. QED
        BY <2>1, <4>1, <4>2 DEF Passed
    <3>2. CASE t \notin Lanes(w)
      BY <1>0, <1>1, <2>1, <3>2 DEF RowInv, V0Part, Passed
    <3>3. QED
      BY <3>1, <3>2
  <2>2. QED
    BY <2>1
<1>9. V0Part'
  BY <1>0, <1>1, <1>7, <1>8 DEF RowInv, V0Part, Only
<1>10. QED
  BY <1>0, <1>6, <1>9 DEF RowInv

LEMMA RowBlockReduce ==
  ASSUME TypeOK, TypeOK', Shape, InStep, RowInv, RowOK, UNCHANGED <<kernel, inplace, size>>,
         CubBlockReduce
  PROVE  RowInv'
<1>0. /\ kernel = "rmsnorm_v1" /\ Stride = B /\ \A t : First(t) = t
      /\ 0 \in Thread /\ Elements' = Elements
  BY Lanes0 DEF Stride, First, Elements, CubBlockReduce
<1>1. /\ part' = [t \in Thread |-> IF t = 0 THEN SumOver(Thread) ELSE Only({Junk})]
      /\ pc' = [t \in Thread |-> "publish"]
      /\ \A t \in Thread : pc[t] = "collect"
      /\ UNCHANGED <<col, total, call, dist, shared, out>>
  BY DEF CubBlockReduce, Goto, TypeOK
<1>2. SumOver(Thread) = Only(Elements)
  <2>1. \A t \in Thread : part[t] = RowPart(First(t), size)
    BY <1>1 DEF RowInv, Gathering
  <2>2. \A r \in 0 .. Stride - 1 : \E t \in Thread : First(t) = r
    BY <1>0 DEF Thread
  <2>3. \A t, u \in Thread : First(t) = First(u) => t = u
    BY <1>0
  <2>4. QED
    BY <2>1, <2>2, <2>3, RowSum
<1>3. Gathering'
  BY <1>1 DEF Gathering
<1>4. \A t \in Thread : \A i : ~Passed(t, i) /\ ~Passed(t, i)'
  BY <1>1 DEF Passed
<1>5. V1Part'
  BY <1>0, <1>1, <1>2, <1>4, ElementThread DEF RowInv, V1Part, Only
<1>6. QED
  BY <1>0, <1>3, <1>5 DEF RowInv

(* The sum goes from thread 0 through shared_val to every thread.          *)
LEMMA RowShare ==
  ASSUME TypeOK, TypeOK', Shape, InStep, RowInv, RowOK, UNCHANGED <<kernel, inplace, size>>,
         NEW t \in Thread, Publish(t) \/ AfterPublish(t) \/ Read(t)
  PROVE  RowInv'
<1>0. /\ Stride' = Stride /\ Elements' = Elements
      /\ \A u : First(u)' = First(u)
      /\ \A r, n : RowPart(r, n)' = RowPart(r, n)
      /\ 0 \in Thread /\ Row /\ 0 \div W = 0 /\ 0 \in Warp
  BY Lanes0 DEF Stride, First, RowPart, Only, Elements, RowOK
<1>1. kernel = "rmsnorm_v1"
  BY <1>0 DEF Shape, Labels, Publish, AfterPublish, Read, Row
<1>2. CASE Publish(t)
  <2>1. /\ shared' = IF t = 0 THEN [shared EXCEPT ![0] = part[0]] ELSE shared
        /\ pc' = [pc EXCEPT ![t] = "wait"] /\ pc[t] = "publish"
        /\ UNCHANGED <<col, part, total, call, dist, out>>
    BY <1>0, <1>2 DEF Publish, Goto, TypeOK
  <2>2. \A u \in Thread : \A i : Passed(u, i)' <=> Passed(u, i)
    BY <2>1 DEF Passed, TypeOK
  <2>3. Gathering'
    BY <1>0, <2>1 DEF RowInv, Gathering, TypeOK
  <2>4. \A u \in Thread : pc[u] \in {"publish", "wait"}
    BY <1>0, <1>1, <2>1 DEF InStep, Together, Shape, Labels
  <2>5. shared' \in [Warp -> Sum] /\ (t = 0 => shared'[0] = part[0])
    BY <1>0, <2>1 DEF TypeOK
  <2>6. V1Part'
    BY <1>0, <1>1, <2>1, <2>2, <2>4, <2>5, ElementThread DEF RowInv, V1Part, Only, TypeOK
  <2>7. QED
    BY <1>1, <2>3, <2>6 DEF RowInv
<1>3. CASE AfterPublish(t)
  <2>1. /\ pc' = [u \in Thread |-> "read"] /\ \A u \in Thread : pc[u] = "wait"
        /\ UNCHANGED <<col, part, total, call, dist, shared, out>>
    BY <1>3 DEF AfterPublish, Goto
  <2>2. \A u \in Thread : \A i : ~Passed(u, i) /\ ~Passed(u, i)'
    BY <2>1 DEF Passed
  <2>3. Gathering'
    BY <2>1 DEF Gathering
  <2>4. V1Part'
    BY <1>0, <1>1, <2>1, <2>2, ElementThread DEF RowInv, V1Part, Only
  <2>5. QED
    BY <1>1, <2>3, <2>4 DEF RowInv
<1>4. CASE Read(t)
  <2>1. /\ total' = [total EXCEPT ![t] = shared[0]]
        /\ col' = [col EXCEPT ![t] = First(t)]
        /\ pc' = [pc EXCEPT ![t] = "scale"] /\ pc[t] = "read"
        /\ UNCHANGED <<part, call, dist, shared, out>>
    BY <1>0, <1>4 DEF Read, Goto, TypeOK
  <2>2. First(t) % Stride = First(t)
    BY FirstResidue
  <2>3. Gathering'
    BY <1>0, <2>1, <2>2 DEF RowInv, Gathering, TypeOK
  <2>4. First(t) = t
    BY <1>1 DEF First
  <2>5. ASSUME NEW i \in Elements
        PROVE  Passed(i % B, i)' <=> Passed(i % B, i)
    <3>1. i % B \in Thread /\ i \in Nat
      BY ElementThread
    <3>2. CASE i % B = t
      <4>1. ~(i < t)
        <5>1. ASSUME i < t PROVE FALSE
          <6>1. i \in 0 .. B - 1 /\ i = 0 * B + i
            BY <3>1, <5>1 DEF Thread
          <6>2. (0 * B + i) % B = i
            BY <6>1, Remainder
          <6>3. QED
            BY <3>1, <3>2, <5>1, <6>1, <6>2
        <5>2. QED
          BY <5>1
      <4>2. QED
        BY <2>1, <2>4, <3>1, <3>2, <4>1 DEF Passed, TypeOK
    <3>3. CASE i % B # t
      BY <2>1, <3>1, <3>3 DEF Passed, TypeOK
    <3>4. QED
      BY <3>2, <3>3
  <2>6. \A u \in Thread : pc[u] \notin {"publish", "wait"}
    BY <1>0, <1>1, <2>1 DEF InStep, Together
  <2>7. V1Part'
    BY <1>0, <1>1, <2>1, <2>5, <2>6 DEF RowInv, V1Part, Only, TypeOK
  <2>8. QED
    BY <1>1, <2>3, <2>7 DEF RowInv
<1>5. QED
  BY <1>2, <1>3, <1>4

LEMMA RowInvAlways == Spec => [](TypeOK /\ RowInv)
<1>1. Init /\ TypeOK => RowInv
  <2> SUFFICES ASSUME Init, TypeOK, RowOK PROVE RowInv
    BY DEF RowInv
  <2>1. \A t \in Thread : pc[t] = "gather" /\ col[t] = First(t) /\ part[t] = Only({})
    BY DEF Init, RowOK
  <2>2. \A t \in Thread :
          First(t) % Stride = First(t) /\ RowPart(First(t), First(t)) = Only({})
    BY FirstResidue, RowStart
  <2>3. Gathering
    BY <2>1, <2>2 DEF Gathering
  <2>4. \A t \in Thread : \A i : ~Passed(t, i)
    BY <2>1 DEF Passed
  <2>5. 0 \in Thread
    BY Lanes0
  <2>6. V1Part /\ V0Part
    BY <2>1, <2>4, <2>5, ElementThread, RowSize DEF Init, V1Part, V0Part
  <2>7. QED
    BY <2>3, <2>6 DEF RowInv
<1>2. ASSUME TypeOK, TypeOK', Shape, InStep, RowInv, [Next]_vars
      PROVE  RowInv'
  <2>1. UNCHANGED <<kernel, inplace, size>>
    BY <1>2, KernelStays
  <2>2. RowOK' <=> RowOK
    BY <2>1 DEF RowOK, Row
  <2> SUFFICES ASSUME RowOK PROVE RowInv'
    BY <2>2 DEF RowInv
  <2>3. ASSUME NEW t \in Thread, Step(t)
        PROVE  RowInv'
    <3>1. ~Return(t)
      BY <1>2 DEF Return, Shape, Labels, RowOK, Row
    <3>2. QED
      BY <1>2, <2>1, <2>3, <3>1, RowGather, RowGathered, RowScale, RowScaled, RowShare
         DEF Step
  <2>4. ASSUME NEW w \in Warp, WarpReduce(w) \/ Shuffle(w)
        PROVE  RowInv'
    <3>1. ~Shuffle(w)
      <4>1. w * W \in Lanes(w) /\ w * W \in Thread
        BY Lanes0 DEF Lanes
      <4>2. pc[w * W] \notin {"shuffle", "reshuffle"}
        BY <1>2, <4>1 DEF Shape, Labels, RowOK, Row
      <4>3. QED
        BY <4>1, <4>2 DEF Shuffle
    <3>2. QED
      BY <1>2, <2>1, <2>4, <3>1, RowWarpReduce
  <2>5. CASE CubBlockReduce
    BY <1>2, <2>1, <2>5, RowBlockReduce
  <2>6. ~Fence
    <3>1. 0 \in Thread /\ pc[0] # "fence"
      BY <1>2, Lanes0 DEF Shape, Labels, RowOK, Row
    <3>2. QED
      BY <3>1 DEF Fence
  <2>7. CASE UNCHANGED vars
    <3>1. /\ Stride' = Stride /\ Elements' = Elements
          /\ \A u : First(u)' = First(u)
          /\ \A r, n : RowPart(r, n)' = RowPart(r, n)
          /\ \A u, i : Passed(u, i)' <=> Passed(u, i)
          /\ UNCHANGED <<kernel, size, pc, col, part, total, shared, out>>
      BY <2>7 DEF vars, Stride, First, RowPart, Only, Passed, Elements
    <3>2. Gathering /\ Gathering'
      BY <1>2, <3>1 DEF RowInv, Gathering
    <3>3. kernel = "rmsnorm_v1" => V1Part'
      BY <1>2, <3>1 DEF RowInv, V1Part, Only
    <3>4. kernel = "rmsnorm_v0" => V0Part'
      BY <1>2, <3>1 DEF RowInv, V0Part, Only
    <3>5. QED
      BY <3>1, <3>2, <3>3, <3>4 DEF RowInv
  <2>8. QED
    BY <1>2, <2>3, <2>4, <2>5, <2>6, <2>7 DEF Next, Ended
<1>3. QED
  BY <1>1, <1>2, InStepAlways, PTL DEF Spec

(* row_rmsnorm_f32_v1 normalises every row by its own sum, also in place,   *)
(* for every block and row.                                                *)
THEOREM RowsAreNormalised == Spec => []RowIsNormalised
<1>1. TypeOK /\ RowInv => RowIsNormalised
  <2>1. kernel = "rmsnorm_v1" => RowOK
    BY DEF RowOK, Row
  <2>2. QED
    BY <2>1, ElementThread DEF RowInv, V1Part, Passed, RowIsNormalised, Done
<1>2. QED
  BY <1>1, RowInvAlways, PTL

(* row_rmsnorm_f32_v0 is right in every column a first lane writes, however *)
(* many warps write it.                                                    *)
THEOREM FirstLanesAreNormalised == Spec => []LaneZeroIsNormalised
<1>1. TypeOK /\ RowInv => LaneZeroIsNormalised
  <2>1. kernel = "rmsnorm_v0" /\ ~inplace => RowOK
    BY DEF RowOK, Row
  <2>2. 0 \in Thread /\ 0 % W = 0
    BY Lanes0
  <2>3. QED
    BY <2>1, <2>2 DEF RowInv, V0Part, Passed, LaneZeroIsNormalised, Done
<1>2. QED
  BY <1>1, RowInvAlways, PTL
-----------------------------------------------------------------------------
(* block_reduce, for warps of a power of two.  Before a shuffle over d the  *)
(* first 2 * d lanes have the block's values between them, each those of   *)
(* its remainder: in the first round the values of the warp, in the second *)
(* the sums of the warps.                                                  *)
PowerOfTwo == \A d \in Nat \ {0} : W % d = 0 => d = 1 \/ d % 2 = 0

Vals(S, c) == Only({(c - 1) * B + u : u \in S})

Width(d) == IF d = 0 THEN 1 ELSE 2 * d

InWarp(w, l, n) == {u \in Lanes(w) : (u % W) % n = l}

OfWarps(l, n) == {u \in Thread : (u \div W) % n = l}

(* The sums of two disjoint sets of values of a call add up to that of both. *)
LEMMA ValsAdd ==
  ASSUME NEW S \in SUBSET Thread, NEW T \in SUBSET Thread, S \cap T = {}, NEW c \in 1 .. 2
  PROVE  Add(Vals(S, c), Vals(T, c)) = Vals(S \cup T, c)
<1> DEFINE V(X) == {(c - 1) * B + u : u \in X}
<1>0. (c - 1) * B \in Nat
  OBVIOUS
<1>1. \A u \in Thread : u \in Int
  BY DEF Thread
<1>2. ASSUME NEW k
      PROVE  ~(k \in V(S) /\ k \in V(T))
  <2>1. \A u \in S, v \in T : (c - 1) * B + u # (c - 1) * B + v
    BY <1>0, <1>1
  <2>2. QED
    BY <2>1
<1>3. \A k : k \in V(S \cup T) <=> k \in V(S) \/ k \in V(T)
  OBVIOUS
<1>4. ASSUME NEW k \in Value
      PROVE  Capped(Vals(S, c)[k] + Vals(T, c)[k]) = Vals(S \cup T, c)[k]
  <2>1. /\ Vals(S, c)[k] = IF k \in V(S) THEN 1 ELSE 0
        /\ Vals(T, c)[k] = IF k \in V(T) THEN 1 ELSE 0
        /\ Vals(S \cup T, c)[k] = IF k \in V(S \cup T) THEN 1 ELSE 0
    BY DEF Vals, Only
  <2>2. ~(k \in V(S) /\ k \in V(T)) /\ (k \in V(S \cup T) <=> k \in V(S) \/ k \in V(T))
    BY <1>2, <1>3
  <2> HIDE DEF V
  <2>3. QED
    BY <2>1, <2>2 DEF Capped
<1>5. Vals(S \cup T, c) = [k \in Value |-> Vals(S \cup T, c)[k]]
  BY DEF Vals, Only
<1>6. QED
  BY <1>4, <1>5 DEF Add

(* Half the width has the same values in half the lanes.                   *)
LEMMA WarpHalves ==
  ASSUME NEW w \in Warp, NEW d \in Nat \ {0}, NEW l \in 0 .. d - 1, NEW c \in 1 .. 2
  PROVE  Add(Vals(InWarp(w, l, 2 * d), c), Vals(InWarp(w, l + d, 2 * d), c))
           = Vals(InWarp(w, l, d), c)
<1>1. \A u \in Lanes(w) : u % W \in Nat
  BY LaneOf
<1>2. \A n \in Nat : n % d = l <=> n % (2 * d) = l \/ n % (2 * d) = l + d
  <2>1. ASSUME NEW n \in Nat
        PROVE  n % d = l <=> n % (2 * d) = l \/ n % (2 * d) = l + d
    <3> DEFINE x == n % d
               y == n % (2 * d)
    <3>1. (y = x \/ y = x + d) /\ x \in 0 .. d - 1
      BY Halves, Division
    <3> HIDE DEF x, y
    <3>2. x = l <=> y = l \/ y = l + d
      BY <3>1
    <3>3. QED
      BY <3>2 DEF x, y
  <2>2. QED
    BY <2>1
<1>3. InWarp(w, l, d) = InWarp(w, l, 2 * d) \cup InWarp(w, l + d, 2 * d)
  BY <1>1, <1>2 DEF InWarp
<1>4. InWarp(w, l, 2 * d) \cap InWarp(w, l + d, 2 * d) = {}
  BY DEF InWarp
<1>5. \A n : InWarp(w, n, 2 * d) \in SUBSET Thread
  BY DEF InWarp, Lanes
<1>6. QED
  BY <1>3, <1>4, <1>5, ValsAdd

LEMMA WarpsHalve ==
  ASSUME NEW d \in Nat \ {0}, NEW l \in 0 .. d - 1, NEW c \in 1 .. 2
  PROVE  Add(Vals(OfWarps(l, 2 * d), c), Vals(OfWarps(l + d, 2 * d), c)) = Vals(OfWarps(l, d), c)
<1>1. \A u \in Thread : u \div W \in Nat
  BY Lanes0 DEF Warp
<1>2. \A n \in Nat : n % d = l <=> n % (2 * d) = l \/ n % (2 * d) = l + d
  <2>1. ASSUME NEW n \in Nat
        PROVE  n % d = l <=> n % (2 * d) = l \/ n % (2 * d) = l + d
    <3> DEFINE x == n % d
               y == n % (2 * d)
    <3>1. (y = x \/ y = x + d) /\ x \in 0 .. d - 1
      BY Halves, Division
    <3> HIDE DEF x, y
    <3>2. x = l <=> y = l \/ y = l + d
      BY <3>1
    <3>3. QED
      BY <3>2 DEF x, y
  <2>2. QED
    BY <2>1
<1>3. OfWarps(l, d) = OfWarps(l, 2 * d) \cup OfWarps(l + d, 2 * d)
  BY <1>1, <1>2 DEF OfWarps
<1>4. OfWarps(l, 2 * d) \cap OfWarps(l + d, 2 * d) = {}
  BY DEF OfWarps
<1>5. \A n : OfWarps(n, 2 * d) \in SUBSET Thread
  BY DEF OfWarps
<1>6. QED
  BY <1>3, <1>4, <1>5, ValsAdd

(* At full width each lane has its own value, or that of its warp; at width *)
(* one the first lane has all.                                             *)
LEMMA Widths ==
  /\ Width(W \div 2) = W /\ W \div 2 \in Nat \ {0} /\ W % W = 0
  /\ \A t \in Thread : InWarp(t \div W, t % W, W) = {t}
  /\ \A t \in 0 .. W - 1 : OfWarps(t, W) = IF t \in Warp THEN Lanes(t) ELSE {}
  /\ \A w \in Warp : InWarp(w, 0, 1) = Lanes(w)
  /\ OfWarps(0, 1) = Thread
<1>1. Width(W \div 2) = W /\ W \div 2 \in Nat \ {0} /\ W % W = 0
  BY DEF Width
<1>2. \A n \in 0 .. W - 1 : n % W = n
  <2>1. ASSUME NEW n \in 0 .. W - 1 PROVE n % W = n
    <3>1. (0 * W + n) % W = n /\ 0 * W + n = n
      BY Remainder
    <3>2. QED
      BY <3>1
  <2>2. QED
    BY <2>1
<1>3. ASSUME NEW t \in Thread PROVE InWarp(t \div W, t % W, W) = {t}
  <2>1. t \div W \in Warp /\ t \in Lanes(t \div W)
    BY Lanes0
  <2>2. \A u \in Lanes(t \div W) : u % W = t % W => u = t
    BY <2>1, LaneOf
  <2>3. \A u \in Lanes(t \div W) : (u % W) % W = u % W
    BY <1>2, <2>1, LaneOf
  <2>4. QED
    BY <2>1, <2>2, <2>3 DEF InWarp
<1>4. ASSUME NEW t \in 0 .. W - 1
      PROVE  OfWarps(t, W) = IF t \in Warp THEN Lanes(t) ELSE {}
  <2>1. \A u \in Thread : u \div W \in Warp /\ u \div W \in 0 .. W - 1
    BY Lanes0 DEF Warp
  <2>2. \A u \in Thread : (u \div W) % W = u \div W
    BY <1>2, <2>1
  <2>3. QED
    BY <2>1, <2>2 DEF OfWarps, Lanes
<1>5. \A n \in Nat : n % 1 = 0
  BY SMT
<1>6. ASSUME NEW w \in Warp PROVE InWarp(w, 0, 1) = Lanes(w)
  BY <1>5, LaneOf DEF InWarp
<1>7. OfWarps(0, 1) = Thread
  BY <1>5, Lanes0 DEF OfWarps, Warp
<1>8. QED
  BY <1>1, <1>3, <1>4, <1>6, <1>7

(* The widths stay divisors of a warp, ...                                 *)
LEMMA WidthHalves ==
  ASSUME PowerOfTwo, NEW d \in Nat \ {0}, W % Width(d) = 0
  PROVE  Width(d \div 2) = d /\ W % d = 0 /\ Width(d) = 2 * d /\ 2 * d <= W
<1>1. Width(d) = 2 * d
  BY DEF Width
<1>2. PICK q \in Nat : W = q * (2 * d)
  <2>1. 2 * d \in Nat \ {0} /\ W % (2 * d) = 0
    BY <1>1
  <2>2. \A n \in Nat, e \in Nat \ {0} : n % e = 0 => \E q \in Nat : n = q * e
    BY Quotient
  <2>3. QED
    BY <2>1, <2>2
<1>3. W % d = 0
  <2>1. W = (2 * q) * d /\ 2 * q \in Nat
    BY <1>2
  <2>2. ((2 * q) * d) % d = 0
    BY <2>1, Multiple
  <2>3. QED
    BY <2>1, <2>2
<1>4. q >= 1
  BY <1>2
<1>5. 2 * d <= W
  BY <1>2, <1>4
<1>6. d = 1 \/ d % 2 = 0
  BY <1>3, Zenon DEF PowerOfTwo
<1>7. Width(d \div 2) = d
  <2>1. CASE d = 1
    BY <2>1 DEF Width
  <2>2. CASE d % 2 = 0
    BY <2>2 DEF Width
  <2>3. QED
    BY <1>6, <2>1, <2>2
<1>8. QED
  BY <1>1, <1>3, <1>5, <1>7

(* ... and a lane's value or sum has what is its own.                      *)
Lane(t) ==
  /\ pc[t] \notin {"shuffle", "reshuffle"} => dist[t \div W] = W \div 2
  /\ pc[t] = "shuffle" /\ t % W < Width(dist[t \div W]) =>
       part[t] = Vals(InWarp(t \div W, t % W, Width(dist[t \div W])), call[t])
  /\ pc[t] = "publish" /\ t % W = 0 => part[t] = Vals(Lanes(t \div W), call[t])
  /\ pc[t] = "wait" /\ t % W = 0 => shared[t \div W] = Vals(Lanes(t \div W), call[t])
  /\ pc[t] = "read" => \A w \in Warp : shared[w] = Vals(Lanes(w), call[t])
  /\ pc[t] = "reshuffle" => t < W
  /\ pc[t] = "reshuffle" /\ t < Width(dist[0]) =>
       part[t] = Vals(OfWarps(t, Width(dist[0])), call[t])
  /\ pc[t] = "return" /\ t = 0 => part[t] = Vals(Thread, call[t])
  /\ pc[t] = "fence" => part[t] = Vals({t}, call[t])

CallInv ==
  kernel = "block_reduce" =>
    /\ \A w \in Warp : dist[w] \in Nat /\ W % Width(dist[w]) = 0
    /\ \A t \in Thread : Lane(t)

(* The lanes below W are those of the first warp.                          *)
LEMMA FirstWarp ==
  \A t \in Thread : /\ t < W <=> t \div W = 0
                    /\ t < W => t % W = t
<1>1. ASSUME NEW t \in Thread
      PROVE  (t < W <=> t \div W = 0) /\ (t < W => t % W = t)
  <2>1. t \in Nat
    BY DEF Thread
  <2>2. ASSUME t < W PROVE t \div W = 0 /\ t % W = t
    <3>1. t \in 0 .. W - 1 /\ 0 * W + t = t
      BY <2>1, <2>2
    <3>2. (0 * W + t) \div W = 0 /\ (0 * W + t) % W = t
      BY <3>1, WholePart, Remainder
    <3>3. QED
      BY <3>1, <3>2
  <2>3. ASSUME t \div W = 0 PROVE t < W
    <3>1. t = (t \div W) * W + (t % W) /\ t % W \in 0 .. W - 1
      BY <2>1, Division
    <3>2. t = 0 * W + (t % W)
      BY <2>3, <3>1
    <3>3. QED
      BY <3>1, <3>2
  <2>4. QED
    BY <2>2, <2>3
<1>2. QED
  BY <1>1

(* One shuffle halves the width, the last one gives the first lane all.    *)
LEMMA CallShuffle ==
  ASSUME PowerOfTwo, TypeOK, TypeOK', InStep, CallInv, kernel = "block_reduce",
         kernel' = kernel, NEW w \in Warp, Shuffle(w)
  PROVE  CallInv'
<1>1. PICK label \in {"shuffle", "reshuffle"} :
        /\ \A t \in Lanes(w) : pc[t] = label
        /\ IF dist[w] > 0
             THEN /\ part' = [t \in Thread |-> IF t \in Lanes(w)
                               THEN Add(part[t], part[Source(t, w, dist[w])]) ELSE part[t]]
                  /\ dist' = [dist EXCEPT ![w] = NextDist(@)]
                  /\ UNCHANGED pc
             ELSE /\ Goto(Lanes(w), IF label = "shuffle" THEN "publish" ELSE "return")
                  /\ dist' = [dist EXCEPT ![w] = W \div 2]
                  /\ UNCHANGED part
        /\ UNCHANGED <<call, shared>>
  BY DEF Shuffle
<1>2. /\ \A v \in Warp : dist[v] \in Nat /\ W % Width(dist[v]) = 0
      /\ \A t \in Thread : Lane(t)
  BY DEF CallInv
<1>3. \A t \in Lanes(w) : t \in Thread /\ t \div W = w /\ t % W \in 0 .. W - 1
  BY LaneOf
<1>4. \A t \in Thread : t \notin Lanes(w) => t \div W # w /\ t \div W \in Warp
  BY Lanes0 DEF Lanes
<1>5. 0 \in Warp /\ \A t \in Thread : pc[t] = "reshuffle" => t \div W = 0 /\ t % W = t
  BY <1>2, Lanes0, FirstWarp DEF Lane
<1>6. \A t, u \in Lanes(w) : call[t] = call[u]
  BY <1>1, <1>3 DEF InStep, Together
<1> DEFINE d == dist[w]
<1>7. CASE d > 0
  <2>1. /\ d \in Nat \ {0}
        /\ Width(d) = 2 * d /\ Width(d \div 2) = d /\ W % d = 0 /\ 2 * d <= W
    BY <1>2, <1>7, WidthHalves
  <2>2. /\ dist' = [dist EXCEPT ![w] = d \div 2] /\ pc' = pc
        /\ part' = [t \in Thread |-> IF t \in Lanes(w)
                     THEN Add(part[t], part[Source(t, w, d)]) ELSE part[t]]
    BY <1>1, <1>7 DEF NextDist
  <2> HIDE DEF d
  <2>3. dist'[w] = d \div 2 /\ \A v \in Warp : v # w => dist'[v] = dist[v]
    BY <2>2 DEF TypeOK
  <2>4. \A v \in Warp : dist'[v] \in Nat /\ W % Width(dist'[v]) = 0
    BY <1>2, <2>1, <2>3
  <2>5. ASSUME NEW t \in Lanes(w), t % W < d
        PROVE  /\ Source(t, w, d) = t + d /\ t + d \in Lanes(w)
               /\ (t + d) % W = (t % W) + d
    <3>1. t \in Nat /\ t = w * W + (t % W) /\ (t % W) + d \in 0 .. W - 1
      BY <2>1, <2>5, LaneOf
    <3>2. w * W \in Nat
      BY DEF Warp
    <3> DEFINE l == t % W
               p == w * W
    <3>3. t = p + l /\ l \in Nat /\ p \in Nat /\ l + d \in 0 .. W - 1
      BY <2>1, <3>1, <3>2
    <3>4. p + (l + d) \in Lanes(w) /\ (p + (l + d)) % W = l + d
      BY <3>1, LaneAt
    <3> HIDE DEF l, p
    <3>5. t + d = p + (l + d)
      BY <2>1, <3>3
    <3>6. Source(t, w, d) = t + d
      BY <3>4, <3>5 DEF Source
    <3>7. QED
      BY <3>4, <3>5, <3>6 DEF l
  <2>6. ASSUME NEW t \in Thread, t \notin Lanes(w)
        PROVE  Lane(t)'
    <3>1. part'[t] = part[t] /\ dist'[t \div W] = dist[t \div W]
      BY <1>4, <2>2, <2>3, <2>6
    <3>2. pc[t] = "reshuffle" => dist'[0] = dist[0]
      BY <1>4, <1>5, <2>3, <2>6
    <3>3. Lane(t)
      BY <1>2
    <3>4. QED
      BY <1>1, <2>2, <3>1, <3>2, <3>3 DEF Lane
  <2>7. ASSUME NEW t \in Lanes(w), t % W < d
        PROVE  /\ label = "shuffle" => part'[t] = Vals(InWarp(w, t % W, d), call[t])
               /\ label = "reshuffle" => part'[t] = Vals(OfWarps(t, d), call[t])
    <3>1. /\ part'[t] = Add(part[t], part[t + d])
          /\ t \in Thread /\ t + d \in Thread /\ t + d \in Lanes(w)
          /\ (t + d) % W = (t % W) + d
          /\ t % W \in 0 .. d - 1 /\ (t % W) + d < 2 * d /\ t % W < 2 * d
          /\ call[t + d] = call[t] /\ call[t] \in 1 .. 2
      BY <1>3, <1>6, <2>1, <2>2, <2>5, <2>7 DEF TypeOK
    <3>2. Lane(t) /\ Lane(t + d) /\ pc[t] = label /\ pc[t + d] = label
      BY <1>1, <1>2, <3>1
    <3>3. t \div W = w /\ (t + d) \div W = w
      BY <1>3, <3>1
    <3>4. ASSUME label = "shuffle"
          PROVE  part'[t] = Vals(InWarp(w, t % W, d), call[t])
      <4>1. part[t] = Vals(InWarp(w, t % W, 2 * d), call[t])
        BY <2>1, <3>1, <3>2, <3>3, <3>4 DEF Lane, d
      <4>2. part[t + d] = Vals(InWarp(w, (t % W) + d, 2 * d), call[t])
        <5>1. part[t + d] = Vals(InWarp(w, (t + d) % W, 2 * d), call[t + d])
          BY <2>1, <3>1, <3>2, <3>3, <3>4 DEF Lane, d
        <5>2. QED
          BY <3>1, <5>1
      <4>3. Add(Vals(InWarp(w, t % W, 2 * d), call[t]),
                Vals(InWarp(w, (t % W) + d, 2 * d), call[t])) = Vals(InWarp(w, t % W, d), call[t])
        BY <2>1, <3>1, WarpHalves
      <4>4. QED
        BY <3>1, <4>1, <4>2, <4>3
    <3>5. ASSUME label = "reshuffle"
          PROVE  part'[t] = Vals(OfWarps(t, d), call[t])
      <4>1. w = 0 /\ t % W = t /\ (t + d) % W = t + d
        BY <1>5, <3>1, <3>2, <3>3, <3>5
      <4>2. part[t] = Vals(OfWarps(t, 2 * d), call[t])
        BY <2>1, <3>1, <3>2, <3>5, <4>1 DEF Lane, d
      <4>3. part[t + d] = Vals(OfWarps(t + d, 2 * d), call[t])
        <5>1. part[t + d] = Vals(OfWarps(t + d, 2 * d), call[t + d])
          BY <2>1, <3>1, <3>2, <3>5, <4>1 DEF Lane, d
        <5>2. QED
          BY <3>1, <5>1
      <4>4. Add(Vals(OfWarps(t, 2 * d), call[t]), Vals(OfWarps(t + d, 2 * d), call[t]))
              = Vals(OfWarps(t, d), call[t])
        <5>1. t \in 0 .. d - 1
          BY <3>1, <4>1
        <5>2. QED
          BY <2>1, <3>1, <5>1, WarpsHalve
      <4>5. QED
        BY <3>1, <4>2, <4>3, <4>4
    <3>6. QED
      BY <3>4, <3>5
  <2>8. ASSUME NEW t \in Lanes(w)
        PROVE  Lane(t)'
    <3>1. /\ t \in Thread /\ t \div W = w /\ pc'[t] = label /\ call' = call
          /\ Width(dist'[w]) = d
      BY <1>1, <1>3, <2>1, <2>2, <2>3
    <3>2. label = "reshuffle" => w = 0 /\ t % W = t /\ t < W
      BY <1>1, <1>2, <1>5, <3>1 DEF Lane
    <3>3. QED
      BY <2>7, <3>1, <3>2 DEF Lane
  <2>9. QED
    BY <2>4, <2>6, <2>8 DEF CallInv
<1>8. CASE ~(d > 0)
  <2>1. /\ dist' = [dist EXCEPT ![w] = W \div 2] /\ UNCHANGED <<part, call, shared>>
        /\ pc' = [t \in Thread |-> IF t \in Lanes(w)
                   THEN IF label = "shuffle" THEN "publish" ELSE "return" ELSE pc[t]]
    BY <1>1, <1>8 DEF Goto
  <2>2. dist'[w] = W \div 2 /\ \A v \in Warp : v # w => dist'[v] = dist[v]
    BY <2>1 DEF TypeOK
  <2>3. \A v \in Warp : dist'[v] \in Nat /\ W % Width(dist'[v]) = 0
    BY <1>2, <2>2, Widths
  <2>4. d = 0 /\ Width(d) = 1
    BY <1>2, <1>8 DEF Width
  <2> HIDE DEF d
  <2>5. ASSUME NEW t \in Thread, t \notin Lanes(w)
        PROVE  Lane(t)'
    <3>1. pc'[t] = pc[t] /\ dist'[t \div W] = dist[t \div W]
      BY <1>4, <2>1, <2>2, <2>5
    <3>2. pc[t] = "reshuffle" => dist'[0] = dist[0]
      BY <1>4, <1>5, <2>2, <2>5
    <3>3. Lane(t)
      BY <1>2
    <3>4. QED
      BY <2>1, <3>1, <3>2, <3>3 DEF Lane
  <2>6. ASSUME NEW t \in Lanes(w)
        PROVE  Lane(t)'
    <3>1. /\ t \in Thread /\ t \div W = w /\ pc[t] = label /\ Lane(t)
          /\ pc'[t] = IF label = "shuffle" THEN "publish" ELSE "return"
      BY <1>1, <1>2, <1>3, <2>1
    <3>2. CASE label = "shuffle"
      <4>1. t % W = 0 => part[t] = Vals(InWarp(w, 0, 1), call[t])
        BY <2>4, <3>1, <3>2 DEF Lane, d
      <4>2. QED
        BY <2>1, <2>2, <3>1, <3>2, <4>1, Widths DEF Lane
    <3>3. CASE label = "reshuffle"
      <4>1. w = 0
        BY <1>5, <3>1, <3>3
      <4>2. t = 0 => part[t] = Vals(OfWarps(0, 1), call[t])
        BY <2>4, <3>1, <3>3, <4>1 DEF Lane, d
      <4>3. QED
        BY <2>1, <2>2, <3>1, <3>3, <4>1, <4>2, Widths DEF Lane
    <3>4. QED
      BY <3>2, <3>3
  <2>7. QED
    BY <2>3, <2>5, <2>6 DEF CallInv
<1>9. QED
  BY <1>7, <1>8

(* The sums of the warps go through warpSum to the first warp.             *)
LEMMA CallShare ==
  ASSUME TypeOK, TypeOK', Shape, InStep, CallInv, kernel = "block_reduce", kernel' = kernel,
         NEW t \in Thread, Publish(t) \/ AfterPublish(t) \/ Read(t)
  PROVE  CallInv'
<1>1. /\ \A v \in Warp : dist[v] \in Nat /\ W % Width(dist[v]) = 0
      /\ \A u \in Thread : Lane(u)
      /\ ~Row
  BY DEF CallInv, Row
<1>2. dist' = dist /\ call' = call
  BY DEF Publish, AfterPublish, Read
<1>3. CASE Publish(t)
  <2>1. /\ shared' = IF t % W = 0 THEN [shared EXCEPT ![t \div W] = part[t]] ELSE shared
        /\ pc[t] = "publish" /\ pc' = [pc EXCEPT ![t] = "wait"] /\ part' = part
    BY <1>1, <1>3 DEF Publish, Goto, TypeOK
  <2>2. \A u \in Thread : pc[u] # "read"
    BY <2>1 DEF InStep, Together, Shape, Labels
  <2>3. ASSUME NEW u \in Thread PROVE Lane(u)'
    <3>1. CASE u = t
      <4>1. pc'[u] = "wait" /\ (t % W = 0 => shared'[t \div W] = part[t])
        BY <2>1, <3>1, Lanes0 DEF TypeOK
      <4>2. QED
        BY <1>1, <1>2, <2>1, <3>1, <4>1 DEF Lane
    <3>2. CASE u # t
      <4>1. pc'[u] = pc[u]
        BY <2>1, <3>2 DEF TypeOK
      <4>2. u % W = 0 => shared'[u \div W] = shared[u \div W]
        <5>1. u \in Nat /\ t \in Nat
          BY DEF Thread
        <5>2. u = (u \div W) * W + (u % W) /\ t = (t \div W) * W + (t % W)
          BY <5>1, Division
        <5>3. u % W = 0 /\ t % W = 0 => u \div W # t \div W
          BY <3>2, <5>1, <5>2
        <5>4. QED
          BY <2>1, <5>3, Lanes0 DEF TypeOK
      <4>3. QED
        BY <1>1, <1>2, <2>1, <2>2, <4>1, <4>2 DEF Lane
    <3>3. QED
      BY <3>1, <3>2
  <2>4. QED
    BY <1>1, <1>2, <2>3 DEF CallInv
<1>4. CASE AfterPublish(t)
  <2>1. /\ \A u \in Thread : pc[u] = "wait" /\ pc'[u] = "read"
        /\ UNCHANGED <<part, shared>>
    BY <1>4 DEF AfterPublish, Goto
  <2>2. \A u, v \in Thread : call[u] = call[v]
    BY <2>1 DEF InStep, Together
  <2>3. ASSUME NEW w \in Warp, NEW u \in Thread
        PROVE  shared[w] = Vals(Lanes(w), call[u])
    <3>1. w * W \in Thread /\ (w * W) \div W = w /\ (w * W) % W = 0
      BY Lanes0, LaneOf
    <3>2. shared[w] = Vals(Lanes(w), call[w * W])
      BY <1>1, <2>1, <3>1 DEF Lane
    <3>3. QED
      BY <2>2, <3>1, <3>2
  <2>4. \A u \in Thread : Lane(u)'
    BY <1>1, <1>2, <2>1, <2>3 DEF Lane
  <2>5. QED
    BY <1>1, <1>2, <2>4 DEF CallInv
<1>5. CASE Read(t)
  <2>1. /\ part' = IF t >= W THEN part
                   ELSE [part EXCEPT ![t] = IF t \in Warp THEN shared[t] ELSE Only({})]
        /\ pc[t] = "read" /\ shared' = shared
        /\ pc' = [pc EXCEPT ![t] = IF t < W THEN "reshuffle" ELSE "return"]
    BY <1>1, <1>5 DEF Read, Goto, TypeOK
  <2>2. t \in Nat /\ Lane(t)
    BY <1>1 DEF Thread
  <2>3. ASSUME NEW u \in Thread PROVE Lane(u)'
    <3>1. CASE u # t
      <4>1. pc'[u] = pc[u] /\ part'[u] = part[u]
        BY <2>1, <3>1 DEF TypeOK
      <4>2. QED
        BY <1>1, <1>2, <2>1, <4>1 DEF Lane
    <3>2. CASE u = t /\ t < W
      <4>1. pc'[t] = "reshuffle"
            /\ part'[t] = IF t \in Warp THEN shared[t] ELSE Only({})
        BY <2>1, <2>2, <3>2 DEF TypeOK
      <4>2. dist[0] = W \div 2
        BY <2>1, <2>2, <3>2, FirstWarp DEF Lane
      <4>3. t \in 0 .. W - 1
        BY <2>2, <3>2
      <4>4. OfWarps(t, W) = IF t \in Warp THEN Lanes(t) ELSE {}
        BY <4>3, Widths
      <4>5. part'[t] = Vals(OfWarps(t, W), call[t])
        <5>1. Vals({}, call[t]) = Only({})
          BY DEF Vals
        <5>2. t \in Warp => shared[t] = Vals(Lanes(t), call[t])
          BY <2>1, <2>2 DEF Lane
        <5>3. QED
          BY <4>1, <4>4, <5>1, <5>2
      <4>6. Width(dist[0]) = W
        BY <4>2, Widths
      <4>7. QED
        BY <1>2, <3>2, <4>1, <4>5, <4>6 DEF Lane
    <3>3. CASE u = t /\ ~(t < W)
      <4>1. pc'[t] = "return" /\ t # 0
        BY <2>1, <2>2, <3>3 DEF TypeOK
      <4>2. QED
        BY <1>2, <2>1, <2>2, <3>3, <4>1 DEF Lane
    <3>4. QED
      BY <3>1, <3>2, <3>3
  <2>4. QED
    BY <1>1, <1>2, <2>3 DEF CallInv
<1>6. QED
  BY <1>3, <1>4, <1>5

(* The second call starts as the first one did.                            *)
LEMMA CallAgain ==
  ASSUME TypeOK, TypeOK', CallInv, kernel = "block_reduce", kernel' = kernel,
         (\E t \in Thread : Return(t)) \/ Fence
  PROVE  CallInv'
<1>1. /\ \A v \in Warp : dist[v] \in Nat /\ W % Width(dist[v]) = 0
      /\ \A u \in Thread : Lane(u)
  BY DEF CallInv
<1>2. dist' = dist /\ shared' = shared
  BY DEF Return, Fence
<1>3. ASSUME NEW t \in Thread, Return(t)
      PROVE  CallInv'
  <2>1. /\ pc[t] = "return"
        /\ pc' = [pc EXCEPT ![t] = IF call[t] = 1 THEN "fence" ELSE "done"]
        /\ call[t] = 1 => /\ call' = [call EXCEPT ![t] = 2]
                          /\ part' = [part EXCEPT ![t] = Brings(t, 2)]
        /\ call[t] # 1 => call' = call /\ part' = part
    BY <1>3 DEF Return, Goto, TypeOK
  <2>2. Brings(t, 2) = Vals({t}, 2)
    <3>1. {(2 - 1) * B + u : u \in {t}} = {(2 - 1) * B + t}
      OBVIOUS
    <3>2. QED
      BY <3>1 DEF Brings, Vals
  <2>3. ASSUME NEW u \in Thread PROVE Lane(u)'
    <3>1. CASE u # t
      <4>1. pc'[u] = pc[u] /\ part'[u] = part[u] /\ call'[u] = call[u]
        BY <2>1, <3>1 DEF TypeOK
      <4>2. Lane(u)
        BY <1>1
      <4>3. QED
        BY <1>2, <4>1, <4>2 DEF Lane
    <3>2. CASE u = t /\ call[t] = 1
      <4>1. pc'[u] = "fence" /\ part'[u] = Vals({u}, 2) /\ call'[u] = 2
        BY <2>1, <2>2, <3>2 DEF TypeOK
      <4>2. dist'[u \div W] = W \div 2
        BY <1>1, <1>2, <2>1, <3>2 DEF Lane
      <4>3. QED
        BY <4>1, <4>2 DEF Lane
    <3>3. CASE u = t /\ call[t] # 1
      <4>1. pc'[t] = "done"
        BY <2>1, <3>3 DEF TypeOK
      <4>2. dist[t \div W] = W \div 2
        BY <1>1, <2>1 DEF Lane
      <4>3. QED
        BY <1>2, <3>3, <4>1, <4>2 DEF Lane
    <3>4. QED
      BY <3>1, <3>2, <3>3
  <2>4. QED
    BY <1>1, <1>2, <2>3 DEF CallInv
<1>4. CASE Fence
  <2>1. /\ \A u \in Thread : pc[u] = "fence" /\ pc'[u] = "shuffle"
        /\ UNCHANGED <<part, call>>
    BY <1>4 DEF Fence, Goto
  <2>2. ASSUME NEW u \in Thread PROVE Lane(u)'
    <3>1. dist[u \div W] = W \div 2 /\ part[u] = Vals({u}, call[u])
      BY <1>1, <2>1 DEF Lane
    <3>2. InWarp(u \div W, u % W, Width(dist[u \div W])) = {u}
      BY <3>1, Widths
    <3>3. QED
      BY <1>2, <2>1, <3>1, <3>2 DEF Lane
  <2>3. QED
    BY <1>1, <1>2, <2>2 DEF CallInv
<1>5. QED
  BY <1>3, <1>4

(* Thread 0 gets the sum of its call from block_reduce, in the first call   *)
(* and in the second, for every block of warps of a power of two.          *)
THEOREM BlockReduceReturnsSum ==
  ASSUME PowerOfTwo
  PROVE  Spec => []ReturnsSum
<1>1. Init => CallInv
  <2> SUFFICES ASSUME Init, kernel = "block_reduce" PROVE CallInv
    BY DEF CallInv
  <2>1. ASSUME NEW t \in Thread PROVE Lane(t)
    <3>1. /\ pc[t] = "shuffle" /\ call[t] = 1 /\ part[t] = Brings(t, 1)
          /\ dist[t \div W] = W \div 2
      BY Lanes0 DEF Init, Row
    <3>2. Brings(t, 1) = Vals({t}, 1)
      <4>1. {(1 - 1) * B + u : u \in {t}} = {(1 - 1) * B + t}
        OBVIOUS
      <4>2. QED
        BY <4>1 DEF Brings, Vals
    <3>3. InWarp(t \div W, t % W, Width(dist[t \div W])) = {t}
      BY <3>1, Widths
    <3>4. QED
      BY <3>1, <3>2, <3>3 DEF Lane
  <2>2. \A v \in Warp : dist[v] \in Nat /\ W % Width(dist[v]) = 0
    BY Widths DEF Init
  <2>3. QED
    BY <2>1, <2>2 DEF CallInv
<1>2. ASSUME TypeOK, TypeOK', Shape, InStep, CallInv, [Next]_vars
      PROVE  CallInv'
  <2>0. kernel' = kernel
    BY <1>2, KernelStays
  <2> SUFFICES ASSUME kernel = "block_reduce" PROVE CallInv'
    BY <2>0 DEF CallInv
  <2>1. ASSUME NEW t \in Thread, Step(t)
        PROVE  CallInv'
    <3>1. pc[t] \notin {"gather", "collect", "scale"}
      BY <1>2 DEF Shape, Labels
    <3>2. QED
      BY <1>2, <2>0, <2>1, <3>1, CallShare, CallAgain
         DEF Step, Gather, Gathered, Scale, Scaled
  <2>2. ASSUME NEW w \in Warp, WarpReduce(w) \/ Shuffle(w)
        PROVE  CallInv'
    BY <1>2, <2>0, <2>2, CallShuffle DEF WarpReduce
  <2>3. CASE Fence
    BY <1>2, <2>0, <2>3, CallAgain
  <2>4. CASE UNCHANGED vars
    <3>1. \A t \in Thread : Lane(t)'
      BY <1>2, <2>4 DEF vars, CallInv, Lane
    <3>2. QED
      BY <1>2, <2>4, <3>1 DEF vars, CallInv
  <2>5. QED
    BY <1>2, <2>1, <2>2, <2>3, <2>4 DEF Next, Ended, CubBlockReduce
<1>3. TypeOK /\ CallInv => ReturnsSum
  <2>1. 0 \in Thread
    BY Lanes0
  <2>2. QED
    BY <2>1 DEF CallInv, Lane, ReturnsSum, Vals
<1>4. QED
  BY <1>1, <1>2, <1>3, InStepAlways, PTL DEF Spec
-----------------------------------------------------------------------------
(* The lanes of a warp come to its collective operations together.         *)
WarpsTogether ==
  /\ kernel = "rmsnorm_v0" =>
       \A t, u \in Thread : t \div W = u \div W =>
         (pc[t] \in {"gather", "collect"} <=> pc[u] \in {"gather", "collect"})
  /\ kernel = "block_reduce" =>
       /\ \A t, u \in Thread : t \div W = u \div W =>
            (pc[t] = "shuffle" <=> pc[u] = "shuffle")
       /\ \A t, u \in Thread : t \div W = 0 /\ u \div W = 0 =>
            (pc[t] \in {"read", "reshuffle"} <=> pc[u] \in {"read", "reshuffle"})
       /\ \A t \in Thread : pc[t] = "reshuffle" => t \div W = 0

LEMMA WarpsTogetherAlways == Spec => []WarpsTogether
<1>1. Init => WarpsTogether
  BY DEF Init, WarpsTogether, Row
<1>2. ASSUME TypeOK, Shape, WarpsTogether, [Next]_vars
      PROVE  WarpsTogether'
  <2>0. /\ pc \in [Thread -> Label] /\ kernel' = kernel
        /\ \A t \in Thread : pc[t] \in Labels(kernel)
        /\ \A w : \A t \in Thread : t \in Lanes(w) <=> t \div W = w
    BY <1>2, KernelStays DEF TypeOK, Shape, Lanes
  <2>1. CASE UNCHANGED vars
    BY <1>2, <2>1 DEF vars, WarpsTogether
  <2>2. CASE kernel = "rmsnorm_v0" /\ ~UNCHANGED vars
    <3>1. ASSUME NEW t \in Thread, Step(t)
          PROVE  \A u \in Thread : pc'[u] \in {"gather", "collect"}
                                     <=> pc[u] \in {"gather", "collect"}
      BY <2>0, <2>2, <3>1 DEF Step, Gather, Gathered, Scale, Scaled, Publish,
         AfterPublish, Read, Return, Goto, Labels
    <3>2. ASSUME NEW w \in Warp, WarpReduce(w)
          PROVE  \A u \in Thread : pc'[u] = IF u \div W = w THEN "scale" ELSE pc[u]
      BY <2>0, <3>2 DEF WarpReduce, Goto
    <3>3. ASSUME NEW w \in Warp, Shuffle(w)
          PROVE  FALSE
      <4>1. w * W + 0 \in Lanes(w)
        BY LaneAt, ReduceAssumption DEF ReduceAssumption
      <4>2. QED
        BY <2>0, <2>2, <3>3, <4>1 DEF Shuffle, Labels, Lanes
    <3>4. ~CubBlockReduce /\ ~Fence
      BY <2>0, <2>2, Lanes0 DEF CubBlockReduce, Fence, Labels
    <3>5. QED
      BY <1>2, <2>0, <2>2, <3>1, <3>2, <3>3, <3>4 DEF Next, Ended, WarpsTogether
  <2>3. CASE kernel = "block_reduce" /\ ~UNCHANGED vars
    <3>0. ~Row
      BY <2>3 DEF Row
    <3>1. ASSUME NEW t \in Thread, AfterPublish(t)
          PROVE  \A u \in Thread : pc'[u] = "read"
      BY <3>1 DEF AfterPublish, Goto
    <3>2. ASSUME NEW t \in Thread, Step(t), ~AfterPublish(t)
          PROVE  \A u \in Thread :
                   /\ pc'[u] = "shuffle" <=> pc[u] = "shuffle"
                   /\ u < W => (pc'[u] \in {"read", "reshuffle"}
                                  <=> pc[u] \in {"read", "reshuffle"})
                   /\ pc'[u] = "reshuffle" => u < W \/ pc[u] = "reshuffle"
      <4>1. CASE Publish(t) \/ Return(t)
        BY <2>0, <3>0, <4>1 DEF Publish, Return, Goto
      <4>2. CASE Read(t)
        <5>1. pc[t] = "read" /\ Goto({t}, IF t < W THEN "reshuffle" ELSE "return")
          BY <3>0, <4>2 DEF Read
        <5>2. QED
          BY <2>0, <5>1 DEF Goto
      <4>3. CASE Gather(t) \/ Gathered(t) \/ Scale(t) \/ Scaled(t)
        BY <2>0, <2>3, <4>3 DEF Gather, Gathered, Scale, Scaled, Labels
      <4>4. QED
        BY <3>2, <4>1, <4>2, <4>3 DEF Step
    <3>3. ASSUME NEW w \in Warp, Shuffle(w)
          PROVE  \/ pc' = pc
                 \/ /\ \A u \in Thread : u \div W = w => pc[u] = "shuffle"
                    /\ \A u \in Thread : pc'[u] = IF u \div W = w THEN "publish" ELSE pc[u]
                 \/ /\ \A u \in Thread : u \div W = w => pc[u] = "reshuffle"
                    /\ \A u \in Thread : pc'[u] = IF u \div W = w THEN "return" ELSE pc[u]
      BY <2>0, <3>3 DEF Shuffle, Goto
    <3>4. ~CubBlockReduce /\ \A w \in Warp : ~WarpReduce(w)
      BY <2>3 DEF CubBlockReduce, WarpReduce
    <3>5. CASE Fence
      <4>1. \A u \in Thread : pc'[u] = "shuffle"
        BY <3>5 DEF Fence, Goto
      <4>2. QED
        BY <2>0, <2>3, <4>1 DEF WarpsTogether
    <3>6. ASSUME NEW u \in Thread
          PROVE  u < W <=> u \div W = 0
      <4> DEFINE q == u \div W
      <4>1. q \in Nat /\ u \in Nat /\ u = q * W + (u % W) /\ u % W \in 0 .. W - 1
        <5>1. u \in Nat /\ W \in Nat \ {0}
          BY ReduceAssumption DEF ReduceAssumption, Thread
        <5>2. QED
          BY ONLY <5>1, Division
      <4> HIDE DEF q
      <4>2. q >= 1 => q * W >= 1 * W
        BY <4>1, ReduceAssumption DEF ReduceAssumption
      <4>3. QED
        BY <4>1, <4>2, ReduceAssumption DEF ReduceAssumption, q
    <3>7. ASSUME NEW t \in Thread, Step(t)
          PROVE  WarpsTogether'
      BY <1>2, <2>0, <2>3, <3>1, <3>2, <3>6, <3>7 DEF WarpsTogether
    <3>8. ASSUME NEW w \in Warp, Shuffle(w)
          PROVE  WarpsTogether'
      BY <1>2, <2>0, <2>3, <3>3, <3>8 DEF WarpsTogether
    <3>9. QED
      BY <1>2, <2>3, <3>4, <3>5, <3>7, <3>8 DEF Next, Ended
  <2>4. CASE kernel \notin {"rmsnorm_v0", "block_reduce"}
    BY <2>0, <2>4 DEF WarpsTogether
  <2>5. QED
    BY <2>1, <2>2, <2>3, <2>4
<1>3. QED
  BY <1>1, <1>2, ShapeIsKept, PTL DEF Spec

(* Some thread is not waiting, or all those that have to come to a barrier, *)
(* to a shuffle or to one of cub's reductions are there.                    *)
CanGoOn ==
  \/ Done
  \/ \E t \in Thread : pc[t] \in {"gather", "scale", "publish", "read", "return"}
  \/ \A t \in Thread : pc[t] = "wait"
  \/ \A t \in Thread : pc[t] = "fence"
  \/ \E w \in Warp : \E label \in {"shuffle", "reshuffle"} :
       \A t \in Lanes(w) : pc[t] = label
  \/ kernel = "rmsnorm_v0" /\ \E w \in Warp : \A t \in Lanes(w) : pc[t] = "collect"
  \/ kernel = "rmsnorm_v1" /\ \A t \in Thread : pc[t] = "collect"

(* No block is ever stuck at a barrier, whatever its size, although only    *)
(* warp 0 goes on to shuffle after the one of block_reduce (sum.cu:118-127) *)
(* and threads have different numbers of columns (rmsnorm_kernel.cu:23-31,  *)
(* 47-58).                                                                 *)
THEOREM ReduceNeverStuck == Spec => []CanGoOn
<1>1. ASSUME TypeOK, Shape, InStep, WarpsTogether
      PROVE  CanGoOn
  <2> SUFFICES ASSUME \A t \in Thread : pc[t] \in {"collect", "shuffle", "reshuffle",
                                                   "wait", "fence", "done"},
                      ~Done
               PROVE  CanGoOn
    BY <1>1 DEF CanGoOn, TypeOK, Label
  <2>0. /\ \A t \in Thread : t \div W \in Warp
        /\ \A w : \A t \in Lanes(w) : t \in Thread /\ t \div W = w
        /\ \A t \in Thread : pc[t] \in Labels(kernel)
        /\ kernel \in {"rmsnorm_v0", "rmsnorm_v1", "block_reduce", "block_redude_sum"}
    BY <1>1, Lanes0, ReduceAssumption DEF Shape, Lanes, TypeOK, ReduceAssumption
  <2>1. PICK t \in Thread : pc[t] # "done"
    BY DEF Done
  <2>2. CASE kernel = "rmsnorm_v0"
    <3>1. pc[t] = "collect"
      BY <2>0, <2>1, <2>2 DEF Labels
    <3>2. \A u \in Lanes(t \div W) : pc[u] = "collect"
      BY <1>1, <2>0, <2>2, <3>1 DEF WarpsTogether, Labels
    <3>3. QED
      BY <2>0, <2>2, <3>2 DEF CanGoOn
  <2>3. CASE kernel = "rmsnorm_v1"
    <3>1. \A u \in Thread : pc[u] \in {"collect", "wait", "done"} /\ call[u] = 1
      BY <1>1, <2>0, <2>3 DEF Labels, InStep, Row
    <3>2. \/ \A u \in Thread : pc[u] = "collect"
          \/ \A u \in Thread : pc[u] = "wait"
      BY <1>1, <2>1, <2>3, <3>1 DEF InStep, Together
    <3>3. QED
      BY <2>3, <3>2 DEF CanGoOn
  <2>4. CASE kernel = "block_reduce"
    <3>1. CASE \E u \in Thread : pc[u] = "shuffle"
      <4>1. PICK u \in Thread : pc[u] = "shuffle"
        BY <3>1
      <4>2. \A v \in Lanes(u \div W) : pc[v] = "shuffle"
        BY <1>1, <2>0, <2>4, <4>1 DEF WarpsTogether
      <4>3. QED
        BY <2>0, <4>2 DEF CanGoOn
    <3>2. CASE \E u \in Thread : pc[u] = "reshuffle"
      <4>1. PICK u \in Thread : pc[u] = "reshuffle"
        BY <3>2
      <4>2. \A v \in Lanes(u \div W) : pc[v] = "reshuffle"
        BY <1>1, <2>0, <2>4, <4>1 DEF WarpsTogether
      <4>3. QED
        BY <2>0, <4>2 DEF CanGoOn
    <3>3. CASE \A u \in Thread : pc[u] \notin {"shuffle", "reshuffle"}
      <4>1. \A u \in Thread : pc[u] \in {"wait", "fence", "done"}
        BY <2>0, <2>4, <3>3 DEF Labels
      <4>2. \/ \A u \in Thread : pc[u] = "wait"
            \/ \A u \in Thread : pc[u] = "fence"
        BY <1>1, <2>1, <2>4, <4>1 DEF InStep, Together, Row
      <4>3. QED
        BY <4>2 DEF CanGoOn
    <3>4. QED
      BY <3>1, <3>2, <3>3
  <2>5. CASE kernel = "block_redude_sum"
    <3>1. \A u \in Lanes(t \div W) : pc[u] = "shuffle"
      BY <2>0, <2>5 DEF Labels
    <3>2. QED
      BY <2>0, <3>1 DEF CanGoOn
  <2>6. QED
    BY <2>0, <2>2, <2>3, <2>4, <2>5
<1>2. QED
  BY <1>1, InStepAlways, WarpsTogetherAlways, PTL

-----------------------------------------------------------------------------
(* How many steps are left                                                 *)

(* At most so many steps of thread t, or of the block or the warp with it.  *)
Left(t) ==
  IF Row
    THEN CASE pc[t] = "gather" -> 2 * (B + C) + 6 - col[t]
           [] pc[t] = "collect" -> B + C + 5
           [] pc[t] = "publish" -> B + C + 4
           [] pc[t] = "wait" -> B + C + 3
           [] pc[t] = "read" -> B + C + 2
           [] pc[t] = "scale" -> B + C + 1 - col[t]
           [] OTHER -> 0
    ELSE (IF call[t] = 1 THEN 2 * W + 8 ELSE 0)
         + CASE pc[t] = "fence" -> 2 * W + 7
             [] pc[t] = "shuffle" -> dist[t \div W] + W + 6
             [] pc[t] = "publish" -> W + 5
             [] pc[t] = "wait" -> W + 4
             [] pc[t] = "read" -> W + 3
             [] pc[t] = "reshuffle" -> dist[t \div W] + 2
             [] pc[t] = "return" -> 1
             [] OTHER -> 0

(* Every step of a kernel that ends leaves fewer steps to some threads and  *)
(* to none of them more.                                                   *)
StepsRunOut ==
  [][kernel # "block_redude_sum" =>
       /\ \A t \in Thread : Left(t) \in Nat /\ Left(t)' \in Nat /\ Left(t)' <= Left(t)
       /\ \E t \in Thread : Left(t)' < Left(t)]_vars

LEMMA LeftType ==
  ASSUME TypeOK, NEW t \in Thread
  PROVE  Left(t) \in Nat
<1>1. /\ col[t] \in Nat /\ col[t] <= B + C
      /\ t \div W \in Warp
  BY Lanes0 DEF TypeOK
<1>2. dist[t \div W] \in Nat
  BY <1>1 DEF TypeOK
<1>3. QED
  BY <1>1, <1>2 DEF Left

(* A step of one thread, ...                                               *)
LEMMA ThreadLeft ==
  ASSUME TypeOK, Shape, kernel # "block_redude_sum", kernel' = kernel, NEW t \in Thread,
         Gather(t) \/ Gathered(t) \/ Scale(t) \/ Scaled(t) \/ Publish(t) \/ Read(t) \/ Return(t)
  PROVE  Left(t)' < Left(t) /\ \A u \in Thread \ {t} : Left(u)' = Left(u)
<1>0. /\ pc \in [Thread -> Label] /\ col \in [Thread -> 0 .. B + C]
      /\ call \in [Thread -> 1 .. 2] /\ dist \in [Warp -> 0 .. W]
      /\ t \div W \in Warp /\ dist[t \div W] \in 0 .. W
      /\ Row' = Row /\ dist' = dist
      /\ (Row <=> kernel # "block_reduce")
      /\ pc[t] \in Labels(kernel)
      /\ Stride \in Nat \ {0} /\ First(t) \in Nat
      /\ col[t] \in Nat
  <2>1. dist' = dist
    BY DEF Gather, Gathered, Scale, Scaled, Publish, Read, Return
  <2>2. Stride \in Nat \ {0} /\ First(t) \in Nat
    BY LoopBounds DEF Thread
  <2>3. kernel \in {"rmsnorm_v0", "rmsnorm_v1", "block_reduce"}
    BY DEF TypeOK
  <2>4. Row' = Row /\ (Row <=> kernel # "block_reduce")
    BY <2>3 DEF Row
  <2>5. t \div W \in Warp
    BY Lanes0
  <2>6. QED
    BY <2>1, <2>2, <2>4, <2>5 DEF TypeOK, Shape
<1>1. \A u \in Thread \ {t} : pc'[u] = pc[u] /\ col'[u] = col[u] /\ call'[u] = call[u]
  BY <1>0 DEF Gather, Gathered, Scale, Scaled, Publish, Read, Return, Goto
<1>2. \A u \in Thread \ {t} : Left(u)' = Left(u)
  BY <1>0, <1>1 DEF Left
<1>3. CASE Gather(t) \/ Scale(t)
  <2>1. Row /\ pc'[t] = pc[t] /\ pc[t] \in {"gather", "scale"} /\ col'[t] = col[t] + Stride
    BY <1>0, <1>3 DEF Gather, Scale, Labels
  <2>2. QED
    BY <1>0, <1>2, <2>1 DEF Left
<1>4. CASE Gathered(t) \/ Scaled(t) \/ Publish(t)
  <2>1. /\ UNCHANGED <<col, call>>
        /\ \/ pc[t] = "gather" /\ pc'[t] = "collect" /\ Row
           \/ pc[t] = "scale" /\ pc'[t] = "done" /\ Row
           \/ pc[t] = "publish" /\ pc'[t] = "wait"
    BY <1>0, <1>4 DEF Gathered, Scaled, Publish, Goto, Labels
  <2>2. col[t] <= B + C /\ col'[t] = col[t] /\ call'[t] = call[t]
    BY <1>0, <2>1
  <2>3. QED
    BY <1>0, <1>2, <2>1, <2>2 DEF Left
<1>5. CASE Read(t)
  <2>1. /\ pc[t] = "read" /\ call' = call
        /\ Row => pc'[t] = "scale" /\ col'[t] = First(t)
        /\ ~Row => pc'[t] \in {"reshuffle", "return"}
    BY <1>0, <1>5 DEF Read, Goto
  <2>2. QED
    BY <1>0, <1>2, <2>1 DEF Left
<1>6. CASE Return(t)
  <2>1. /\ ~Row /\ pc[t] = "return"
        /\ \/ call[t] = 1 /\ call'[t] = 2 /\ pc'[t] = "fence"
           \/ call[t] # 1 /\ call'[t] = call[t] /\ pc'[t] = "done"
    <3>1. pc[t] = "return" /\ ~Row
      BY <1>0, <1>6 DEF Return, Labels, Row
    <3>2. CASE call[t] = 1
      BY <1>0, <1>6, <3>1, <3>2 DEF Return, Goto
    <3>3. CASE call[t] # 1
      BY <1>0, <1>6, <3>1, <3>3 DEF Return, Goto
    <3>4. QED
      BY <3>2, <3>3
  <2>2. QED
    BY <1>0, <1>2, <2>1 DEF Left
<1>7. QED
  BY <1>3, <1>4, <1>5, <1>6

(* ... of a warp, ...                                                      *)
LEMMA WarpLeft ==
  ASSUME TypeOK, Shape, kernel # "block_redude_sum", kernel' = kernel, NEW w \in Warp,
         WarpReduce(w) \/ Shuffle(w)
  PROVE  \A t \in Thread : IF t \in Lanes(w) THEN Left(t)' < Left(t) ELSE Left(t)' = Left(t)
<1>0. /\ pc \in [Thread -> Label] /\ col \in [Thread -> 0 .. B + C]
      /\ call \in [Thread -> 1 .. 2] /\ dist \in [Warp -> 0 .. W]
      /\ Row' = Row /\ (Row <=> kernel # "block_reduce")
      /\ \A t \in Thread : /\ t \div W \in Warp /\ (t \in Lanes(w) <=> t \div W = w)
                           /\ pc[t] \in Labels(kernel) /\ First(t) \in Nat
      /\ w * W \in Lanes(w) /\ w * W \in Thread
      /\ dist[w] \in 0 .. W
  <2>1. \A t \in Thread : First(t) \in Nat
    BY LoopBounds DEF Thread
  <2>2. kernel \in {"rmsnorm_v0", "rmsnorm_v1", "block_reduce"}
    BY DEF TypeOK
  <2>3. Row' = Row /\ (Row <=> kernel # "block_reduce")
    BY <2>2 DEF Row
  <2>4. QED
    BY <2>1, <2>3, Lanes0 DEF TypeOK, Shape, Lanes
<1>1. CASE WarpReduce(w)
  <2>1. /\ Row /\ \A t \in Lanes(w) : pc[t] = "collect"
        /\ \A t \in Thread : /\ pc'[t] = IF t \in Lanes(w) THEN "scale" ELSE pc[t]
                             /\ col'[t] = IF t \in Lanes(w) THEN First(t) ELSE col[t]
    BY <1>0, <1>1 DEF WarpReduce, Goto
  <2>2. QED
    BY <1>0, <2>1 DEF Left
<1>2. CASE Shuffle(w)
  <2>1. PICK label \in {"shuffle", "reshuffle"} :
          /\ \A t \in Lanes(w) : pc[t] = label
          /\ UNCHANGED <<col, call>>
          /\ \A v \in Warp : v # w => dist'[v] = dist[v]
          /\ \/ /\ pc' = pc
                /\ dist'[w] = dist[w] \div 2 /\ dist[w] > 0
             \/ /\ \A t \in Thread :
                     pc'[t] = IF t \in Lanes(w)
                                THEN IF label = "shuffle" THEN "publish" ELSE "return"
                                ELSE pc[t]
    BY <1>0, <1>2 DEF Shuffle, Goto, NextDist
  <2>2. ~Row
    BY <1>0, <2>1 DEF Labels, Row
  <2>3. ASSUME NEW t \in Thread, t \notin Lanes(w)
        PROVE  Left(t)' = Left(t)
    <3>1. pc'[t] = pc[t] /\ dist'[t \div W] = dist[t \div W] /\ call' = call
      BY <1>0, <2>1, <2>3
    <3>2. QED
      BY <1>0, <2>2, <3>1 DEF Left
  <2>4. ASSUME NEW t \in Thread, t \in Lanes(w)
        PROVE  Left(t)' < Left(t)
    <3>1. /\ pc[t] = label /\ t \div W = w /\ call' = call
          /\ \/ pc'[t] = pc[t] /\ dist'[w] < dist[w] /\ dist'[w] \in Nat
             \/ pc'[t] = IF label = "shuffle" THEN "publish" ELSE "return"
      BY <1>0, <2>1, <2>4
    <3>2. QED
      BY <1>0, <2>1, <2>2, <3>1 DEF Left
  <2>5. QED
    BY <2>3, <2>4
<1>3. QED
  BY <1>1, <1>2

(* ... and of the block.                                                   *)
LEMMA BlockLeft ==
  ASSUME TypeOK, Shape, kernel # "block_redude_sum", kernel' = kernel,
         (\E t \in Thread : AfterPublish(t)) \/ CubBlockReduce \/ Fence
  PROVE  \A t \in Thread : Left(t)' < Left(t)
<1>0. /\ call \in [Thread -> 1 .. 2] /\ dist \in [Warp -> 0 .. W]
      /\ Row' = Row /\ (Row <=> kernel # "block_reduce")
      /\ \A t \in Thread : /\ t \div W \in Warp /\ dist[t \div W] \in 0 .. W
                           /\ pc[t] \in Labels(kernel)
  BY Lanes0 DEF TypeOK, Shape, Row
<1>1. /\ UNCHANGED <<call, dist, col>>
      /\ \/ \A t \in Thread : pc[t] = "wait" /\ pc'[t] = "read"
         \/ Row /\ \A t \in Thread : pc[t] = "collect" /\ pc'[t] = "publish"
         \/ \A t \in Thread : pc[t] = "fence" /\ pc'[t] = "shuffle"
  BY DEF AfterPublish, CubBlockReduce, Fence, Goto, Row
<1>2. (\E t \in Thread : pc[t] = "fence") => ~Row
  BY <1>0 DEF Labels, Row
<1>3. QED
  BY <1>0, <1>1, <1>2 DEF Left

(* No block of block_reduce or of the row kernels takes more steps than its *)
(* size and the row's allow, whatever its size (sum.cu:109-130,             *)
(* rmsnorm_kernel.cu:17-65).                                               *)
THEOREM ReduceStepsRunOut == Spec => StepsRunOut
<1>1. ASSUME TypeOK, TypeOK', Shape, kernel # "block_redude_sum", Next, ~UNCHANGED vars
      PROVE  /\ \A t \in Thread : Left(t) \in Nat /\ Left(t)' \in Nat /\ Left(t)' <= Left(t)
             /\ \E t \in Thread : Left(t)' < Left(t)
  <2>1. /\ kernel' = kernel
        /\ 0 \in Thread
        /\ \A w \in Warp : w * W \in Lanes(w) /\ w * W \in Thread
    BY <1>1, KernelStays, Lanes0 DEF Lanes
  <2>2. \A t \in Thread : Left(t) \in Nat
    BY <1>1, LeftType
  <2>3. \A t \in Thread : Left(t)' \in Nat
    <3>1. /\ col' \in [Thread -> 0 .. B + C] /\ dist' \in [Warp -> 0 .. W]
      BY <1>1 DEF TypeOK
    <3>2. ASSUME NEW t \in Thread PROVE Left(t)' \in Nat
      <4>1. col'[t] \in 0 .. B + C /\ dist'[t \div W] \in 0 .. W
        BY <3>1, Lanes0
      <4>2. /\ \A c \in 0 .. B + C : 2 * (B + C) + 6 - c \in Nat /\ B + C + 1 - c \in Nat
            /\ \A d \in 0 .. W : d + W + 6 \in Nat /\ d + 2 \in Nat
        OBVIOUS
      <4>3. /\ 2 * (B + C) + 6 - col'[t] \in Nat /\ B + C + 1 - col'[t] \in Nat
            /\ dist'[t \div W] + W + 6 \in Nat /\ dist'[t \div W] + 2 \in Nat
        BY <4>1, <4>2
      <4>4. QED
        BY <4>3 DEF Left
    <3>3. QED
      BY <3>2
  <2>4. ASSUME NEW t \in Thread, Step(t), ~AfterPublish(t)
        PROVE  Left(t)' < Left(t) /\ \A u \in Thread \ {t} : Left(u)' = Left(u)
    BY <1>1, <2>1, <2>4, ThreadLeft DEF Step
  <2>5. CASE \E t \in Thread : Step(t) /\ ~AfterPublish(t)
    BY <2>2, <2>3, <2>4, <2>5
  <2>6. CASE \E w \in Warp : WarpReduce(w) \/ Shuffle(w)
    <3>1. PICK w \in Warp :
            \A t \in Thread : IF t \in Lanes(w) THEN Left(t)' < Left(t) ELSE Left(t)' = Left(t)
      BY <1>1, <2>1, <2>6, WarpLeft
    <3>2. QED
      BY <2>1, <2>2, <2>3, <3>1
  <2>7. CASE (\E t \in Thread : AfterPublish(t)) \/ CubBlockReduce \/ Fence
    <3>1. \A t \in Thread : Left(t)' < Left(t)
      BY <1>1, <2>1, <2>7, BlockLeft
    <3>2. QED
      BY <2>1, <2>2, <2>3, <3>1
  <2>8. QED
    BY <1>1, <2>5, <2>6, <2>7 DEF Next, Ended
<1>2. QED
  BY <1>1, ShapeIsKept, PTL DEF Spec, StepsRunOut

=============================================================================
