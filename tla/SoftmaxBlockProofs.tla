-------------------------- MODULE SoftmaxBlockProofs --------------------------
(***************************************************************************)
(* Proofs about SoftmaxBlock, for every size of a row and every size of a  *)
(* block that is whole warps: the variables keep their shape; and where    *)
(* the halving reductions fit the block (kernel2) and the warp (kernel3,   *)
(* kernel4), every maximum and every sum is the whole row's, the sums are  *)
(* made of exponentials, and kernel1, kernel2 and kernel3 normalise.  No   *)
(* block is ever stuck, and its steps run out.                             *)
(***************************************************************************)
EXTENDS SoftmaxBlock, Remainders, TLAPS

USE SoftmaxAssumption DEF SoftmaxAssumption

(* A block has whole warps, no more than half of its threads in number.    *)
LEMMA Warps ==
  /\ B \div W \in 1 .. B - 1
  /\ 2 * (B \div W) <= B
  /\ B = (B \div W) * W
  /\ B >= 2
<1> DEFINE m == B \div W
<1>1. PICK q \in Nat : B = q * W
  BY Quotient
<1>2. m = q
  <2>1. 0 \in 0 .. W - 1 /\ B = q * W + 0
    BY <1>1
  <2>2. (q * W + 0) \div W = q
    BY <1>1, <2>1, WholePart
  <2>3. QED
    BY <2>1, <2>2
<1>3. q >= 1
  BY <1>1
<1>4. q * 2 <= q * W
  BY <1>1
<1>5. QED
  BY <1>1, <1>2, <1>3, <1>4

(* The lanes of a warp, by their number in it.                             *)
LEMMA LaneAt ==
  ASSUME NEW w \in Warp, NEW r \in 0 .. W - 1
  PROVE  /\ w * W + r \in Lanes(w) /\ w * W + r \in Thread
         /\ (w * W + r) % W = r /\ (w * W + r) \div W = w
<1> DEFINE m == B \div W
<1>1. m \in Nat /\ B = m * W /\ w \in Nat /\ w < m
  BY Warps DEF Warp
<1> HIDE DEF m
<1>2. w * W + W <= m * W
  BY <1>1, MultipleGap
<1>3. w * W \in Nat
  BY <1>1
<1>4. w * W + r \in Thread
  BY <1>1, <1>2, <1>3 DEF Thread
<1>5. (w * W + r) \div W = w /\ (w * W + r) % W = r
  BY <1>1, WholePart, Remainder
<1>6. QED
  BY <1>4, <1>5 DEF Lanes

LEMMA LaneOf ==
  ASSUME NEW t \in Thread
  PROVE  /\ t \in Nat /\ t < B
         /\ t \div W \in Warp /\ t \in Lanes(t \div W)
         /\ t % W \in 0 .. W - 1
         /\ t = (t \div W) * W + (t % W)
<1> DEFINE m == B \div W
           q == t \div W
<1>1. t \in Nat /\ t < B /\ m \in Nat /\ B = m * W
  BY Warps DEF Thread
<1>2. q \in Nat /\ t % W \in 0 .. W - 1 /\ t = q * W + (t % W)
  BY <1>1, Division
<1> HIDE DEF m, q
<1>3. q < m
  <2>1. ASSUME q >= m PROVE FALSE
    <3>1. q * W >= m * W
      BY <1>1, <1>2, <2>1
    <3>2. QED
      BY <1>1, <1>2, <3>1
  <2>2. QED
    BY <1>1, <1>2, <2>1
<1>4. QED
  BY <1>1, <1>2, <1>3 DEF Warp, Lanes, m, q

(* The size of a launch.                                                   *)
LEMMA Launch ==
  ASSUME kernel \in Kernels
  PROVE  /\ Dim \in 1 .. B
         /\ 0 \in Thread /\ 0 \in Running
         /\ kernel = "kernel1" => Dim = 1 /\ Running = {0}
         /\ kernel = "kernel3" => Dim = W /\ Running = Lanes(0) /\ 0 \in Warp
         /\ kernel \in {"kernel2", "kernel4"} => Dim = B /\ Running = Thread
<1>1. Dim \in 1 .. B
  BY DEF Dim
<1>2. 0 \in Thread /\ 0 \in Running
  BY <1>1 DEF Thread, Running
<1>3. kernel = "kernel1" => Dim = 1 /\ Running = {0}
  BY DEF Dim, Running, Thread
<1>4. ASSUME kernel = "kernel3" PROVE Dim = W /\ Running = Lanes(0) /\ 0 \in Warp
  <2>1. Dim = W
    BY <1>4 DEF Dim
  <2>2. 0 \in Warp
    BY Warps DEF Warp
  <2>3. ASSUME NEW t \in Thread PROVE t < W <=> t \div W = 0
    <3>1. t \in Nat /\ t % W \in 0 .. W - 1 /\ t = (t \div W) * W + (t % W) /\ t \div W \in Nat
      BY LaneOf DEF Warp
    <3> DEFINE q == t \div W
    <3> HIDE DEF q
    <3>2. q >= 1 => q * W >= 1 * W
      BY <3>1 DEF q
    <3>3. QED
      BY <3>1, <3>2 DEF q
  <2>4. QED
    BY <2>1, <2>2, <2>3 DEF Running, Lanes
<1>5. kernel \in {"kernel2", "kernel4"} => Dim = B /\ Running = Thread
  BY DEF Dim, Running, Thread
<1>6. QED
  BY <1>1, <1>2, <1>3, <1>4, <1>5

(* A launch runs one kernel.                                               *)
LEMMA KernelStays ==
  ASSUME [Next]_vars
  PROVE  kernel' = kernel /\ Dim' = Dim /\ Running' = Running
<1>1. kernel' = kernel
  BY DEF Next, Step, Gather, Gathered, GatheredAlone, ExpAdd, ExpAdded, Publish, Skip,
     Fetch, Store, Read, Exp, ExpEnds, Load, Save, Finish, Shuffle, Barrier, Sync, Ended, vars
<1>2. QED
  BY <1>1 DEF Dim, Running

(* Maxima and sums are values.                                             *)
LEMMA OnlyType == ASSUME NEW S PROVE Only(S) \in Value
BY DEF Value, Only

LEMMA CombineType ==
  ASSUME NEW p, NEW x \in Value, NEW y \in Value
  PROVE  Combine(p, x, y) \in Value
BY DEF Value, Combine

-----------------------------------------------------------------------------
(* Which labels a thread goes through in each kernel, ...                  *)
Labels(k) ==
  CASE k = "kernel1" -> {"gather", "expadd", "load", "save", "done"}
    [] k = "kernel2" -> {"gather", "publish", "wait", "round", "store", "read", "exp",
                         "sync", "load", "save", "done"}
    [] k = "kernel3" -> {"gather", "shuffle", "exp", "load", "save", "done"}
    [] k = "kernel4" -> {"gather", "shuffle", "publish", "wait", "round", "store",
                         "read", "exp", "load", "save", "done"}

(* ... in which pass, and within which bounds.                             *)
Shape ==
  /\ \A t \in Thread :
       /\ pc[t] \in Labels(kernel)
       /\ t \notin Running => pc[t] = "done"
       /\ pc[t] = "exp" => pass[t] = "max"
       /\ t \in Running /\ pc[t] \in {"expadd", "sync", "load", "save", "done"}
            => pass[t] = "sum"
       /\ kernel = "kernel1" /\ pc[t] = "gather" => pass[t] = "max"
       /\ pc[t] = "save" => col[t] < C
       /\ pc[t] = "store" => t < stride
       /\ kernel = "kernel4" /\ pc[t] = "round" => col[t] < B \div W
  /\ kernel = "kernel2" => 2 * stride <= B
  /\ kernel = "kernel4" => stride <= 1
  /\ kernel \in {"kernel1", "kernel3"} => stride = 0

(* The arrays of kernel4 have a cell for every warp.                       *)
LEMMA SlotType ==
  ASSUME NEW t \in Thread, NEW k \in Warp
  PROVE  Slot(t, k) \in Thread
<1>1. k \in 0 .. (B \div W) - 1 /\ B \div W \in Nat /\ 2 * (B \div W) <= B
  BY Warps DEF Warp
<1>2. QED
  BY <1>1 DEF Slot, Thread

(* The steps of a thread keep the types and the shape, ...                 *)
LEMMA ThreadShape ==
  ASSUME TypeOK, Shape, NEW t \in Thread, Step(t), kernel' = kernel, Dim' = Dim,
         Running' = Running
  PROVE  TypeOK' /\ Shape'
<1>0. /\ \A S : Only(S) \in Value
      /\ Dim \in 1 .. B
      /\ t \in Nat /\ t < B
      /\ kernel \in {"kernel1", "kernel2", "kernel3", "kernel4"}
      /\ B \div W \in 1 .. B - 1
  BY OnlyType, Launch, LaneOf, Warps DEF TypeOK
<1>00. pc[t] # "done" => t \in Running
  BY DEF Shape
<1>1. CASE Gather(t)
  <2>1. Combine(pass[t], part[t], Term(t, col[t])) \in Value
    BY <1>0, CombineType DEF TypeOK, Term
  <2>2. col[t] + Dim \in 0 .. B + C
    BY <1>0, <1>1 DEF Gather, TypeOK
  <2>3. TypeOK'
    BY <1>1, <2>1, <2>2 DEF Gather, Advance, TypeOK
  <2>4. Shape'
    BY <1>1 DEF Gather, Advance, Shape, TypeOK
  <2>5. QED
    BY <2>3, <2>4
<1>2. CASE Gathered(t)
  <2>1. TypeOK'
    BY <1>2 DEF Gathered, Goto, TypeOK, Label
  <2>2. Shape'
    BY <1>0, <1>2 DEF Gathered, Goto, Shape, TypeOK, Labels
  <2>3. QED
    BY <2>1, <2>2
<1>3. CASE GatheredAlone(t)
  <2>1. TypeOK'
    BY <1>0, <1>3 DEF GatheredAlone, Goto, TypeOK, Label
  <2>2. Shape'
    BY <1>0, <1>00, <1>3 DEF GatheredAlone, Goto, Shape, TypeOK, Labels
  <2>3. QED
    BY <2>1, <2>2
<1>4. CASE ExpAdd(t)
  <2>1. row' \in [Column -> Element]
    BY <1>4 DEF ExpAdd, TypeOK, Element
  <2>2. Combine("sum", part[t], Only({IF row'[col[t]] = "exp" THEN col[t] ELSE Junk})) \in Value
    BY <1>0, CombineType DEF TypeOK
  <2>3. col[t] + 1 \in 0 .. B + C
    BY <1>0, <1>4 DEF ExpAdd, TypeOK
  <2>4. TypeOK'
    BY <1>4, <2>1, <2>2, <2>3 DEF ExpAdd, Advance, TypeOK
  <2>5. Shape'
    BY <1>4 DEF ExpAdd, Advance, Shape, TypeOK
  <2>6. QED
    BY <2>4, <2>5
<1>5. CASE ExpAdded(t)
  <2>1. TypeOK'
    BY <1>0, <1>5 DEF ExpAdded, Goto, TypeOK, Label
  <2>2. Shape'
    BY <1>0, <1>00, <1>5 DEF ExpAdded, Goto, Shape, TypeOK, Labels
  <2>3. QED
    BY <2>1, <2>2
<1>6. CASE Publish(t)
  <2>1. shared' \in [Thread -> Value]
    BY <1>6 DEF Publish, TypeOK
  <2>2. TypeOK'
    BY <1>6, <2>1 DEF Publish, Goto, TypeOK, Label
  <2>3. Shape'
    BY <1>0, <1>6 DEF Publish, Goto, Shape, TypeOK, Labels
  <2>4. QED
    BY <2>2, <2>3
<1>7. CASE Skip(t)
  <2>1. TypeOK'
    BY <1>7 DEF Skip, Goto, TypeOK, Label
  <2>2. Shape'
    BY <1>0, <1>7 DEF Skip, Goto, Shape, TypeOK, Labels
  <2>3. QED
    BY <2>1, <2>2
<1>8. CASE Fetch(t)
  <2>1. CASE kernel = "kernel2"
    <3>1. t + stride \in Thread
      BY <1>0, <1>8, <2>1 DEF Fetch, Shape, TypeOK, Thread
    <3>2. Combine(pass[t], shared[t], shared[t + stride]) \in Value
      BY <3>1, CombineType DEF TypeOK
    <3>3. TypeOK'
      BY <1>8, <2>1, <3>2 DEF Fetch, Goto, TypeOK, Label
    <3>4. Shape'
      BY <1>0, <1>8, <2>1 DEF Fetch, Goto, Shape, TypeOK, Labels
    <3>5. QED
      BY <3>3, <3>4
  <2>2. CASE kernel # "kernel2"
    <3>1. kernel = "kernel4"
      BY <1>0, <1>8, <2>2 DEF Fetch, Shape, Labels
    <3>2. col[t] \in Warp /\ 0 \in Warp
      BY <1>0, <1>8, <3>1 DEF Fetch, Shape, TypeOK, Warp
    <3>3. shared[Slot(t, 0)] \in Value /\ shared[Slot(t, col[t])] \in Value
      BY <3>2, SlotType DEF TypeOK
    <3>4. part' \in [Thread -> Value]
      BY <1>8, <2>2, <3>3, CombineType DEF Fetch, TypeOK
    <3>5. col[t] + 1 \in 0 .. B + C /\ col[t] + 1 # 0
      BY <1>0, <3>2 DEF Warp
    <3>6. TypeOK'
      BY <1>8, <2>2, <3>4, <3>5 DEF Fetch, Goto, Advance, TypeOK, Label
    <3>7. Shape'
      BY <1>0, <1>8, <2>2, <3>1, <3>5 DEF Fetch, Goto, Advance, Shape, TypeOK, Labels
    <3>8. QED
      BY <3>6, <3>7
  <2>3. QED
    BY <2>1, <2>2
<1>9. CASE Store(t)
  <2>1. shared' \in [Thread -> Value]
    BY <1>9 DEF Store, TypeOK
  <2>2. TypeOK'
    BY <1>9, <2>1 DEF Store, Goto, TypeOK, Label
  <2>3. Shape'
    BY <1>0, <1>9 DEF Store, Goto, Shape, TypeOK, Labels
  <2>4. QED
    BY <2>2, <2>3
<1>10. CASE Read(t)
  <2>1. shared[Slot(t, 0)] \in Value /\ t \in 0 .. B + C
    <3>1. 0 \in Warp
      BY <1>0 DEF Warp
    <3>2. Slot(t, 0) \in Thread
      BY <3>1, SlotType
    <3>3. shared \in [Thread -> Value]
      BY DEF TypeOK
    <3>4. t \in 0 .. B + C
      BY <1>0
    <3>5. QED
      BY <3>2, <3>3, <3>4
  <2>2. TypeOK'
    BY <1>10, <2>1 DEF Read, Goto, TypeOK, Label
  <2>3. kernel \in {"kernel2", "kernel4"}
    BY <1>0, <1>10 DEF Read, Shape, Labels
  <2>4. Shape'
    BY <1>00, <1>10, <2>3 DEF Read, Goto, Shape, TypeOK, Labels
  <2>5. QED
    BY <2>2, <2>4
<1>11. CASE Exp(t)
  <2>1. col[t] + Dim \in 0 .. B + C
    BY <1>0, <1>11 DEF Exp, TypeOK
  <2>2. TypeOK'
    BY <1>11, <2>1 DEF Exp, Advance, TypeOK, Element
  <2>3. Shape'
    BY <1>11 DEF Exp, Advance, Shape, TypeOK
  <2>4. QED
    BY <2>2, <2>3
<1>12. CASE ExpEnds(t)
  <2>1. t \in 0 .. B + C
    BY <1>0
  <2>2. TypeOK'
    BY <1>0, <1>12, <2>1 DEF ExpEnds, AfterExp, Goto, TypeOK, Label
  <2>3. kernel # "kernel1"
    BY <1>12 DEF ExpEnds, Shape, Labels
  <2>4. Shape'
    BY <1>0, <1>00, <1>12, <2>3 DEF ExpEnds, AfterExp, Goto, Shape, TypeOK, Labels
  <2>5. QED
    BY <2>2, <2>4
<1>13. CASE Load(t)
  <2>1. row[col[t]] \in Element
    BY <1>13 DEF Load, TypeOK, Column
  <2>2. TypeOK'
    BY <1>13, <2>1 DEF Load, Goto, TypeOK, Label
  <2>3. Shape'
    BY <1>0, <1>13 DEF Load, Goto, Shape, TypeOK, Labels
  <2>4. QED
    BY <2>2, <2>3
<1>14. CASE Save(t)
  <2>1. col[t] + SaveStep \in 0 .. B + C
    BY <1>0, <1>14 DEF Save, SaveStep, Shape, TypeOK
  <2>2. TypeOK'
    BY <1>14, <2>1 DEF Save, Advance, Goto, TypeOK, Label, Element
  <2>3. Shape'
    BY <1>0, <1>14 DEF Save, Advance, Goto, Shape, TypeOK, Labels
  <2>4. QED
    BY <2>2, <2>3
<1>15. CASE Finish(t)
  <2>1. TypeOK'
    BY <1>15 DEF Finish, Goto, TypeOK, Label
  <2>2. Shape'
    BY <1>0, <1>15 DEF Finish, Goto, Shape, TypeOK, Labels
  <2>3. QED
    BY <2>1, <2>2
<1>16. QED
  BY <1>1, <1>2, <1>3, <1>4, <1>5, <1>6, <1>7, <1>8, <1>9, <1>10, <1>11, <1>12, <1>13,
     <1>14, <1>15 DEF Step

(* ... and so do those of a warp and of the block.                         *)
LEMMA TogetherShape ==
  ASSUME TypeOK, Shape, (\E w \in Warp : Shuffle(w)) \/ Barrier \/ Sync,
         kernel' = kernel, Dim' = Dim, Running' = Running
  PROVE  TypeOK' /\ Shape'
<1>0. /\ Dim \in 1 .. B /\ 0 \in Running /\ 0 \in Thread
      /\ kernel \in {"kernel1", "kernel2", "kernel3", "kernel4"}
      /\ B \div W \in 1 .. B - 1 /\ B >= 2
      /\ kernel \in {"kernel2", "kernel4"} => Running = Thread
  BY Launch, Warps DEF TypeOK
<1>1. ASSUME NEW w \in Warp, Shuffle(w)
      PROVE  TypeOK' /\ Shape'
  <2>0. /\ w * W \in Lanes(w) /\ w * W \in Thread
        /\ \A t \in Lanes(w) : t \in Thread /\ pc[t] = "shuffle"
    <3>1. w * W + 0 \in Lanes(w) /\ w * W + 0 = w * W
      BY LaneAt DEF Warp
    <3>2. QED
      BY <1>1, <3>1 DEF Shuffle, Lanes
  <2>1. /\ kernel \in {"kernel3", "kernel4"}
        /\ \A t \in Lanes(w) : t \in Running
    BY <1>0, <2>0 DEF Shape, Labels
  <2>2. CASE dist[w] > 0
    <3>1. /\ part' = [t \in Thread |->
                 IF t \in Lanes(w)
                   THEN Combine(pass[t], part[t],
                                part[IF t + dist[w] \in Lanes(w) THEN t + dist[w] ELSE t])
                   ELSE part[t]]
          /\ dist' = [dist EXCEPT ![w] = @ \div 2]
          /\ UNCHANGED <<kernel, pass, cell, shared, row, stride, pc, col, total>>
      BY <1>1, <2>2 DEF Shuffle
    <3>2. part' \in [Thread -> Value]
      BY <2>0, <3>1, CombineType DEF TypeOK
    <3>3. dist[w] \div 2 \in 0 .. W
      BY <2>2 DEF TypeOK
    <3>4. TypeOK'
      BY <3>1, <3>2, <3>3 DEF TypeOK
    <3>5. Shape'
      BY <3>1 DEF Shape
    <3>6. QED
      BY <3>4, <3>5
  <2>3. CASE ~(dist[w] > 0) /\ kernel = "kernel3"
    <3>1. /\ dist' = [dist EXCEPT ![w] = W \div 2]
          /\ total' = [t \in Thread |-> IF t \in Lanes(w) THEN part[w * W] ELSE total[t]]
          /\ col' = [t \in Thread |-> IF t \in Lanes(w) THEN t ELSE col[t]]
          /\ pc' = [t \in Thread |-> IF t \notin Lanes(w) THEN pc[t]
                                     ELSE IF pass[t] = "max" THEN "exp" ELSE "load"]
          /\ UNCHANGED <<part, kernel, pass, cell, shared, row, stride>>
      BY <1>1, <2>3 DEF Shuffle
    <3>2. total' \in [Thread -> Value]
      BY <2>0, <3>1 DEF TypeOK
    <3>3. col' \in [Thread -> 0 .. B + C]
      BY <3>1 DEF TypeOK, Thread
    <3>4. pc' \in [Thread -> Label]
      BY <3>1 DEF TypeOK, Label
    <3>5. W \div 2 \in 0 .. W
      OBVIOUS
    <3>6. TypeOK'
      BY <3>1, <3>2, <3>3, <3>4, <3>5 DEF TypeOK
    <3>7. ASSUME NEW t \in Thread
          PROVE  /\ pc'[t] \in Labels(kernel)
                 /\ t \notin Running => pc'[t] = "done"
                 /\ pc'[t] = "exp" => pass[t] = "max"
                 /\ t \in Running /\ pc'[t] \in {"expadd", "sync", "load", "save", "done"}
                      => pass[t] = "sum"
                 /\ pc'[t] = "save" => col'[t] < C
                 /\ pc'[t] = "store" => t < stride
      <4>1. CASE t \in Lanes(w)
        BY <2>1, <2>3, <3>1, <4>1 DEF Labels, TypeOK
      <4>2. CASE t \notin Lanes(w)
        BY <3>1, <4>2 DEF Shape
      <4>3. QED
        BY <4>1, <4>2
    <3>8. Shape'
      BY <2>3, <3>1, <3>7 DEF Shape
    <3>9. QED
      BY <3>6, <3>8
  <2>4. CASE ~(dist[w] > 0) /\ kernel # "kernel3"
    <3>1. /\ dist' = [dist EXCEPT ![w] = W \div 2]
          /\ pc' = [t \in Thread |-> IF t \in Lanes(w) THEN "publish" ELSE pc[t]]
          /\ UNCHANGED <<col, total, part, kernel, pass, cell, shared, row, stride>>
      BY <1>1, <2>4 DEF Shuffle
    <3>2. W \div 2 \in 0 .. W
      OBVIOUS
    <3>3. pc' \in [Thread -> Label]
      BY <3>1 DEF TypeOK, Label
    <3>4. TypeOK'
      BY <3>1, <3>2, <3>3 DEF TypeOK
    <3>5. Shape'
      BY <2>0, <2>1, <2>4, <3>1 DEF Shape, Labels
    <3>6. QED
      BY <3>4, <3>5
  <2>5. QED
    BY <2>2, <2>3, <2>4
<1>2. CASE Barrier
  <2>1. /\ \A t \in Running : pc[t] = "wait"
        /\ stride' = NextStride
        /\ pc' = [t \in Thread |-> IF stride' = 0 THEN "read" ELSE "round"]
        /\ col' = [t \in Thread |-> 0]
        /\ UNCHANGED <<kernel, pass, part, total, cell, shared, row, dist>>
    BY <1>2 DEF Barrier
  <2>2. kernel \in {"kernel2", "kernel4"}
    BY <1>0, <2>1 DEF Shape, Labels
  <2>3. /\ stride' \in 0 .. B - 1
        /\ kernel = "kernel2" => 2 * stride' <= B
        /\ kernel = "kernel4" => stride' <= 1
    BY <1>0, <2>1, <2>2 DEF NextStride, TypeOK, Shape
  <2>4. pc' \in [Thread -> Label] /\ col' \in [Thread -> 0 .. B + C]
    BY <2>1 DEF Label
  <2>5. TypeOK'
    BY <2>1, <2>3, <2>4 DEF TypeOK
  <2>6. Shape'
    BY <1>0, <2>1, <2>2, <2>3 DEF Shape, Labels
  <2>7. QED
    BY <2>5, <2>6
<1>3. CASE Sync
  <2>1. /\ \A t \in Running : pc[t] = "sync"
        /\ pc' = [t \in Thread |-> "gather"]
        /\ UNCHANGED <<kernel, pass, col, part, total, cell, shared, row, stride, dist>>
    BY <1>3 DEF Sync
  <2>2. kernel = "kernel2"
    BY <1>0, <2>1 DEF Shape, Labels
  <2>3. TypeOK'
    BY <2>1 DEF TypeOK, Label
  <2>4. Shape'
    BY <1>0, <2>1, <2>2 DEF Shape, Labels
  <2>5. QED
    BY <2>3, <2>4
<1>4. QED
  BY <1>1, <1>2, <1>3

LEMMA ShapeIsKept == Spec => [](TypeOK /\ Shape)
<1>1. Init => TypeOK /\ Shape
  <2> SUFFICES ASSUME Init PROVE TypeOK /\ Shape
    OBVIOUS
  <2>1. \A S : Only(S) \in Value
    BY OnlyType
  <2>2. W \div 2 \in 0 .. W /\ 0 \in 0 .. B - 1
    OBVIOUS
  <2>3. /\ kernel \in Kernels /\ stride \in 0 .. B - 1
        /\ pc \in [Thread -> Label]
        /\ pass \in [Thread -> {"max", "sum"}]
        /\ cell \in [Thread -> Element]
        /\ row \in [Column -> Element]
    BY <2>2 DEF Init, Label, Element
  <2>4. /\ part \in [Thread -> Value]
        /\ total \in [Thread -> Value]
        /\ shared \in [Thread -> Value]
    BY <2>1 DEF Init
  <2>5. col \in [Thread -> 0 .. B + C] /\ dist \in [Warp -> 0 .. W]
    BY <2>2 DEF Init, Thread
  <2>6. TypeOK
    BY <2>3, <2>4, <2>5 DEF TypeOK
  <2>7. Shape
    BY <2>3 DEF Init, Shape, Labels
  <2>8. QED
    BY <2>6, <2>7
<1>2. ASSUME TypeOK, Shape, [Next]_vars
      PROVE  TypeOK' /\ Shape'
  <2>1. kernel' = kernel /\ Dim' = Dim /\ Running' = Running
    BY <1>2, KernelStays
  <2>2. CASE UNCHANGED vars
    <3>1. UNCHANGED <<kernel, pc, pass, col, part, total, cell, shared, row, stride, dist>>
      BY <2>2 DEF vars
    <3>2. QED
      BY <1>2, <2>1, <3>1 DEF TypeOK, Shape
  <2>3. QED
    BY <1>2, <2>1, <2>2, ThreadShape, TogetherShape DEF Next, Ended
<1>3. QED
  BY <1>1, <1>2, PTL DEF Spec

(* The variables keep their shape in every launch, and no loop runs past   *)
(* its bounds (softmax.cu:3-213).                                          *)
THEOREM SoftmaxTypeCorrect == Spec => []TypeOK
BY ShapeIsKept, PTL

(* How far a thread has come: maximum, exponentials, sum, division.        *)
Rank(t) ==
  CASE pc[t] \in {"exp", "sync"} -> 1
    [] pc[t] = "read" -> IF pass[t] = "max" THEN 1 ELSE 3
    [] pc[t] \in {"load", "save", "done"} -> 3
    [] OTHER -> IF pass[t] = "max" THEN 0 ELSE 2

(* Only kernel2 waits between the exponentials and the sum.                *)
Group(t) == IF kernel # "kernel2" /\ Rank(t) = 2 THEN 1 ELSE Rank(t)

InStep ==
  /\ \A t, u \in Running : Group(t) = Group(u)
  /\ \A t \in Running :
       IF stride > 0 THEN pc[t] \in {"round", "store", "wait"}
                     ELSE pc[t] \notin {"round", "store"}

(* A thread that goes on alone stays in its group and in its round.        *)
LEMMA ThreadInStep ==
  ASSUME TypeOK, Shape, InStep, NEW t \in Running, kernel' = kernel, Running' = Running,
         \A u \in Running \ {t} : pc'[u] = pc[u] /\ pass'[u] = pass[u],
         stride' = stride, Group(t)' = Group(t),
         IF stride > 0 THEN pc'[t] \in {"round", "store", "wait"}
                       ELSE pc'[t] \notin {"round", "store"}
  PROVE  InStep'
<1>1. \A u \in Running : Group(u)' = Group(u)
  <2>1. \A u \in Running \ {t} : Group(u)' = Group(u)
    BY DEF Group, Rank
  <2>2. QED
    BY <2>1
<1>2. QED
  BY <1>1 DEF InStep

LEMMA ThreadsInStep ==
  ASSUME TypeOK, Shape, InStep, NEW t \in Thread, Step(t), kernel' = kernel,
         Running' = Running
  PROVE  InStep'
<1>0. /\ t \in Running
      /\ kernel \in {"kernel1", "kernel2", "kernel3", "kernel4"}
      /\ t \in Running => IF stride > 0 THEN pc[t] \in {"round", "store", "wait"}
                          ELSE pc[t] \notin {"round", "store"}
      /\ kernel = "kernel1" => Running = {0}
  BY Launch DEF Shape, Step, Gather, Gathered, GatheredAlone, ExpAdd, ExpAdded, Publish, Skip,
     Fetch, Store, Read, Exp, ExpEnds, Load, Save, Finish, InStep, TypeOK
<1>1. CASE Gather(t) \/ ExpAdd(t) \/ Exp(t)
  <2>1. UNCHANGED <<pc, pass, stride>>
    BY <1>1 DEF Gather, ExpAdd, Exp
  <2>2. QED
    BY <2>1 DEF InStep, Group, Rank
<1>2. CASE GatheredAlone(t) \/ ExpAdded(t)
  <2>1. kernel = "kernel1" /\ stride' = stride
    BY <1>0, <1>2 DEF GatheredAlone, ExpAdded, Shape, Labels
  <2>2. pc'[t] \in {"expadd", "load"}
    BY <1>2 DEF GatheredAlone, ExpAdded, Goto, TypeOK
  <2>3. stride = 0 /\ Running = {t}
    BY <1>0, <2>1 DEF Shape
  <2>4. QED
    BY <2>1, <2>2, <2>3 DEF InStep
<1>3. CASE Gathered(t)
  <2>1. /\ pc' = [pc EXCEPT ![t] = IF kernel = "kernel2" THEN "publish" ELSE "shuffle"]
        /\ pc[t] = "gather" /\ UNCHANGED <<pass, stride>>
    BY <1>3 DEF Gathered, Goto
  <2>2. Group(t)' = Group(t)
    BY <2>1 DEF Group, Rank, TypeOK
  <2>3. QED
    BY <1>0, <2>1, <2>2, ThreadInStep DEF TypeOK, Running
<1>4. CASE Publish(t) \/ Skip(t) \/ Store(t)
  <2>1. /\ pc' = [pc EXCEPT ![t] = "wait"]
        /\ pc[t] \in {"publish", "round", "store"} /\ UNCHANGED <<pass, stride>>
    BY <1>4 DEF Publish, Skip, Store, Goto
  <2>2. Group(t)' = Group(t)
    BY <2>1 DEF Group, Rank, TypeOK
  <2>3. QED
    BY <1>0, <2>1, <2>2, ThreadInStep DEF TypeOK, Running
<1>5. CASE Fetch(t)
  <2>1. /\ pc' = pc \/ pc' = [pc EXCEPT ![t] = "store"]
        /\ pc[t] = "round" /\ UNCHANGED <<pass, stride>>
    BY <1>5 DEF Fetch, Goto
  <2>2. Group(t)' = Group(t)
    BY <2>1 DEF Group, Rank, TypeOK
  <2>3. QED
    BY <1>0, <2>1, <2>2, ThreadInStep DEF TypeOK, Running
<1>6. CASE Read(t)
  <2>1. /\ pc' = [pc EXCEPT ![t] = IF pass[t] = "max" THEN "exp" ELSE "load"]
        /\ pc[t] = "read" /\ UNCHANGED <<pass, stride>>
    BY <1>6 DEF Read, Goto
  <2>2. Group(t)' = Group(t)
    BY <2>1 DEF Group, Rank, TypeOK
  <2>3. QED
    BY <1>0, <2>1, <2>2, ThreadInStep DEF TypeOK, Running
<1>7. CASE ExpEnds(t)
  <2>1. /\ pc' = [pc EXCEPT ![t] = IF kernel = "kernel2" THEN "sync" ELSE "gather"]
        /\ pass' = [pass EXCEPT ![t] = "sum"]
        /\ pc[t] = "exp" /\ UNCHANGED stride
    BY <1>7 DEF ExpEnds, AfterExp, Goto
  <2>2. Group(t)' = Group(t)
    BY <2>1 DEF Group, Rank, TypeOK
  <2>3. QED
    BY <1>0, <2>1, <2>2, ThreadInStep DEF TypeOK, Running
<1>8. CASE Load(t) \/ Save(t) \/ Finish(t)
  <2>1. /\ \E l \in {"save", "load", "done"} : pc' = [pc EXCEPT ![t] = l]
        /\ pc[t] \in {"load", "save"} /\ UNCHANGED <<pass, stride>>
    BY <1>8 DEF Load, Save, Finish, Goto
  <2>2. Group(t)' = Group(t)
    BY <2>1 DEF Group, Rank, TypeOK
  <2>3. QED
    BY <1>0, <2>1, <2>2, ThreadInStep DEF TypeOK, Running
<1>9. QED
  BY <1>1, <1>2, <1>3, <1>4, <1>5, <1>6, <1>7, <1>8 DEF Step

(* The threads that go on together are in one pass.                        *)
LEMMA OnePass ==
  ASSUME TypeOK, Shape, InStep, NEW t \in Running, NEW u \in Running,
         pc[t] \in {"gather", "publish", "shuffle", "wait", "round", "store"},
         pc[u] \in {"gather", "publish", "shuffle", "wait", "round", "store"}
  PROVE  pass[t] = pass[u]
BY DEF InStep, Group, Rank, TypeOK, Running

LEMMA TogetherInStep ==
  ASSUME TypeOK, Shape, InStep, (\E w \in Warp : Shuffle(w)) \/ Barrier \/ Sync,
         kernel' = kernel, Running' = Running
  PROVE  InStep'
<1>0. /\ 0 \in Running /\ Running \subseteq Thread
      /\ kernel \in {"kernel1", "kernel2", "kernel3", "kernel4"}
      /\ kernel = "kernel3" => Running = Lanes(0)
      /\ kernel \in {"kernel2", "kernel4"} => Running = Thread
  BY Launch DEF TypeOK, Running
<1>1. ASSUME NEW w \in Warp, Shuffle(w)
      PROVE  InStep'
  <2>0. /\ w * W \in Lanes(w) /\ w * W \in Thread
        /\ \A t \in Lanes(w) : t \in Thread /\ pc[t] = "shuffle"
        /\ (w * W) \div W = w
    <3>1. w * W + 0 \in Lanes(w) /\ w * W + 0 = w * W
      BY LaneAt DEF Warp
    <3>2. QED
      BY <1>1, <3>1 DEF Shuffle, Lanes
  <2>1. /\ kernel \in {"kernel3", "kernel4"} /\ w * W \in Running
    BY <1>0, <2>0 DEF Shape, Labels
  <2>2. stride = 0 /\ stride' = stride /\ pass' = pass
    BY <1>1, <2>0, <2>1 DEF InStep, Shuffle, TypeOK
  <2>3. CASE dist[w] > 0
    <3>1. pc' = pc
      BY <1>1, <2>3 DEF Shuffle
    <3>2. QED
      BY <2>2, <3>1 DEF InStep, Group, Rank
  <2>4. CASE ~(dist[w] > 0) /\ kernel = "kernel3"
    <3>1. w = 0
      BY <1>0, <2>0, <2>1, <2>4 DEF Lanes
    <3>2. \A t \in Running : /\ pc[t] = "shuffle"
                             /\ pc'[t] = IF pass[t] = "max" THEN "exp" ELSE "load"
      BY <1>0, <1>1, <2>0, <2>4, <3>1 DEF Shuffle
    <3>3. \A t, u \in Running : pass[t] = pass[u]
      BY <3>2, OnePass
    <3>4. \A t, u \in Running : Group(t)' = Group(u)'
      BY <2>2, <3>2, <3>3 DEF Group, Rank
    <3>5. QED
      BY <2>2, <3>2, <3>4 DEF InStep
  <2>5. CASE ~(dist[w] > 0) /\ kernel # "kernel3"
    <3>1. pc' = [t \in Thread |-> IF t \in Lanes(w) THEN "publish" ELSE pc[t]]
      BY <1>1, <2>5 DEF Shuffle
    <3>2. \A t \in Running : Group(t)' = Group(t)
      BY <1>0, <2>0, <2>2, <3>1 DEF Group, Rank
    <3>3. QED
      BY <1>0, <2>2, <3>1, <3>2 DEF InStep
  <2>6. QED
    BY <2>3, <2>4, <2>5
<1>2. CASE Barrier
  <2>1. /\ \A t \in Running : pc[t] = "wait"
        /\ \A t \in Running : pc'[t] = IF stride' = 0 THEN "read" ELSE "round"
        /\ stride' = NextStride /\ pass' = pass
    BY <1>0, <1>2 DEF Barrier
  <2>2. \A t, u \in Running : pass[t] = pass[u]
    BY <2>1, OnePass
  <2>3. \A t, u \in Running : Group(t)' = Group(u)'
    BY <2>1, <2>2 DEF Group, Rank
  <2>4. stride' \in Nat
    BY <2>1 DEF NextStride, TypeOK
  <2>5. QED
    BY <2>1, <2>3, <2>4 DEF InStep
<1>3. CASE Sync
  <2>1. /\ \A t \in Running : pc[t] = "sync" /\ pc'[t] = "gather" /\ pass[t] = "sum"
        /\ stride' = stride /\ pass' = pass
    BY <1>0, <1>3 DEF Sync, Shape
  <2>2. stride = 0
    BY <1>0, <2>1 DEF InStep, TypeOK
  <2>3. \A t, u \in Running : Group(t)' = Group(u)'
    BY <2>1 DEF Group, Rank
  <2>4. QED
    BY <2>1, <2>2, <2>3 DEF InStep
<1>4. QED
  BY <1>1, <1>2, <1>3

LEMMA InStepAlways == Spec => [](TypeOK /\ Shape /\ InStep)
<1>1. Init => InStep
  <2> SUFFICES ASSUME Init PROVE InStep
    OBVIOUS
  <2>1. stride = 0 /\ \A t \in Running : pc[t] = "gather" /\ pass[t] = "max"
    BY DEF Init, Running
  <2>2. QED
    BY <2>1 DEF InStep, Group, Rank
<1>2. ASSUME TypeOK, Shape, InStep, [Next]_vars
      PROVE  InStep'
  <2>1. kernel' = kernel /\ Running' = Running
    BY <1>2, KernelStays
  <2>2. CASE UNCHANGED vars
    BY <1>2, <2>1, <2>2 DEF vars, InStep, Group, Rank
  <2>3. QED
    BY <1>2, <2>1, <2>2, ThreadsInStep, TogetherInStep DEF Next, Ended
<1>3. QED
  BY <1>1, <1>2, ShapeIsKept, PTL DEF Spec

-----------------------------------------------------------------------------
(* The columns of remainder r by m, those of them below n, ...             *)
Own(m, r, n) == {k \in Column : k % m = r /\ k < n}

(* ... those that the lanes l, l + d, l + 2 * d, ... of warp w have, ...   *)
Share(m, w, d, l) == {k \in Column : (k % m) \div W = w /\ (k % m) % d = l}

(* ... and those that the warps below j have.                              *)
Below(j) == {k \in Column : (k % B) \div W < j}

(* So many lanes of a warp still have something to add.                    *)
Width(d) == IF d = 0 THEN 1 ELSE 2 * d

(* What a thread has.                                                      *)
Lane(t) ==
  /\ part[t][Junk] = 0
  /\ pc[t] \in {"gather", "exp", "expadd", "sync"} => col[t] % Dim = t
  /\ pc[t] \in {"load", "save"} /\ kernel # "kernel4" => col[t] % Dim = t
  /\ pc[t] \in {"gather", "expadd", "sync"} => part[t] = Only(Own(Dim, t, col[t]))
  /\ pc[t] = "shuffle" /\ t % W < Width(dist[t \div W])
       => part[t] = Only(Share(Dim, t \div W, Width(dist[t \div W]), t % W))
  /\ pc[t] # "shuffle" => dist[t \div W] = W \div 2
  /\ pc[t] = "publish" /\ kernel = "kernel2" => part[t] = Only(Own(B, t, C))
  /\ pc[t] = "publish" /\ kernel = "kernel4" /\ t % W = 0
       => part[t] = Only(Share(B, t \div W, 1, 0))
  /\ pc[t] \in {"exp", "expadd", "load", "save"} => total[t] = Whole
  /\ pc[t] = "save" /\ kernel # "kernel4" => cell[t] = "exp"

Lanewise ==
  /\ \A t \in Thread : Lane(t)
  /\ kernel \in {"kernel3", "kernel4"} => \A w \in Warp : W % Width(dist[w]) = 0

(* What a thread has made of a column of its own.                          *)
Written(t, i) ==
  CASE pc[t] = "done" -> "out"
    [] pc[t] \in {"load", "save"} -> IF i < col[t] THEN "out" ELSE "exp"
    [] pc[t] \in {"exp", "expadd"} -> IF i < col[t] THEN "exp" ELSE "none"
    [] OTHER -> IF Rank(t) >= 2 \/ pc[t] = "sync" THEN "exp" ELSE "none"

(* kernel4 divides a column more than once: nothing is said of it then.    *)
Rows ==
  \A i \in Column :
    \/ kernel = "kernel4" /\ Rank(0) = 3
    \/ row[i] = Written(i % Dim, i)

(* The shared array of kernel2: in a round each cell that is still used has *)
(* the columns of a remainder, by the stride or by twice the stride.       *)
Cells2 ==
  kernel = "kernel2" =>
    /\ stride > 0 => B % (2 * stride) = 0
    /\ \A t \in Thread :
         /\ pc[t] = "wait" /\ stride = 0 => shared[t] = Only(Own(B, t, C))
         /\ stride > 0 /\ t < 2 * stride
              => shared[t] = Only(Own(IF pc[t] = "wait" /\ t < stride THEN stride
                                      ELSE 2 * stride, t, C))
         /\ pc[t] = "store" => part[t] = Only(Own(stride, t, C))
         /\ pc[t] = "read" => shared[0] = Whole

(* The shared arrays of kernel4, with a cell for each warp.                *)
Cells4 ==
  kernel = "kernel4" =>
    /\ \A t \in Thread :
         /\ pc[t] = "wait" /\ stride = 0 /\ t % W = 0
              => shared[Slot(t, t \div W)] = Only(Share(B, t \div W, 1, 0))
         /\ pc[t] = "read" => shared[Slot(t, 0)] = Whole
    /\ stride > 0 =>
         /\ \A w \in Warp :
              shared[Slot(0, w)] = IF w = 0 /\ pc[0] = "wait" THEN Whole
                                   ELSE Only(Share(B, w, 1, 0))
         /\ pc[0] = "round" /\ col[0] > 0 => part[0] = Only(Below(col[0]))
         /\ pc[0] = "store" => part[0] = Whole
-----------------------------------------------------------------------------
(* How sets of columns add up                                              *)

(* A number is a power of two when its divisors, but 1, are even.          *)
PowerOfTwo(n) == \A d \in Nat \ {0} : n % d = 0 => d = 1 \/ d % 2 = 0

(* The sizes that main launches: 128 threads, and warps of 32.             *)
Fitting ==
  /\ "kernel2" \in Kernels => PowerOfTwo(B)
  /\ "kernel3" \in Kernels \/ "kernel4" \in Kernels => PowerOfTwo(W)

(* A maximum covers what either operand does, a sum what one of them does. *)
LEMMA Union ==
  ASSUME NEW p, NEW S \in SUBSET Column, NEW T \in SUBSET Column,
         p = "max" \/ S \cap T = {}
  PROVE  Combine(p, Only(S), Only(T)) = Only(S \cup T)
<1>1. ASSUME NEW k \in Column \cup {Junk}
      PROVE  Combine(p, Only(S), Only(T))[k] = Only(S \cup T)[k]
  BY DEF Combine, Only
<1>2. /\ Combine(p, Only(S), Only(T))
           = [k \in Column \cup {Junk} |-> Combine(p, Only(S), Only(T))[k]]
      /\ Only(S \cup T) = [k \in Column \cup {Junk} |-> Only(S \cup T)[k]]
  BY DEF Combine, Only
<1>3. QED
  BY <1>1, <1>2

(* Columns are not junk, ...                                               *)
LEMMA NoJunk ==
  ASSUME NEW S \in SUBSET Column
  PROVE  Only(S)[Junk] = 0
<1>1. Junk \notin Column
  BY DEF Junk, Column
<1>2. QED
  BY <1>1 DEF Only

(* ... and what is combined of no junk is none.                            *)
LEMMA StaysClean ==
  ASSUME NEW p, NEW x \in Value, NEW y \in Value, x[Junk] = 0, y[Junk] = 0
  PROVE  Combine(p, x, y)[Junk] = 0
BY DEF Combine, Value

LEMMA Columns ==
  /\ \A m, r, n : Own(m, r, n) \in SUBSET Column
  /\ \A m, w, d, l : Share(m, w, d, l) \in SUBSET Column
  /\ \A j : Below(j) \in SUBSET Column
  /\ \A k \in Column : k \in Nat /\ k < C
BY DEF Own, Share, Below, Column

(* A thread starts with nothing, ...                                       *)
LEMMA OwnStart ==
  ASSUME NEW m \in Nat \ {0}, NEW t \in 0 .. m - 1
  PROVE  t % m = t /\ Only(Own(m, t, t)) = Only({})
<1>1. \A k \in 0 .. m - 1 : k % m = k
  <2>1. ASSUME NEW k \in 0 .. m - 1 PROVE k % m = k
    <3>1. (0 * m + k) % m = k /\ 0 * m + k = k
      BY Remainder
    <3>2. QED
      BY <3>1
  <2>2. QED
    BY <2>1
<1>2. ASSUME NEW k \in Own(m, t, t) PROVE FALSE
  BY <1>1, Columns DEF Own
<1>3. Own(m, t, t) = {}
  BY <1>2
<1>4. QED
  BY <1>1, <1>3

(* ... each round of its loop adds the next of its columns, ...            *)
LEMMA OwnStep ==
  ASSUME NEW p, NEW m \in Nat \ {0}, NEW r, NEW c \in Column, c % m = r
  PROVE  /\ Combine(p, Only(Own(m, r, c)), Only({c})) = Only(Own(m, r, c + m))
         /\ (c + m) % m = r
<1>1. c \in Nat /\ (c + m) % m = r
  BY Columns, StepKeepsRemainder
<1>2. ASSUME NEW k \in Column, k % m = r PROVE k < c + m <=> k < c \/ k = c
  <2>1. k \in Nat
    BY Columns
  <2>2. k < c + m => k <= c
    BY <1>1, <1>2, <2>1, ResidueGap
  <2>3. QED
    BY <1>1, <2>1, <2>2
<1>3. Own(m, r, c) \cup {c} = Own(m, r, c + m)
  BY <1>1, <1>2 DEF Own
<1>4. Own(m, r, c) \cap {c} = {}
  BY <1>1 DEF Own
<1>5. {c} \in SUBSET Column
  OBVIOUS
<1>6. Combine(p, Only(Own(m, r, c)), Only({c})) = Only(Own(m, r, c) \cup {c})
  BY <1>4, <1>5, Columns, Union
<1>7. QED
  BY <1>1, <1>3, <1>6

(* ... and beyond the row nothing is left.                                 *)
LEMMA OwnEnd ==
  ASSUME NEW m, NEW r, NEW n \in Int, n >= C
  PROVE  Own(m, r, n) = Own(m, r, C)
BY DEF Own, Column

(* Everything leaves the remainder 0 by 1.                                 *)
LEMMA OwnWhole == Only(Own(1, 0, C)) = Whole
<1>1. \A k \in Column : k % 1 = 0 /\ k < C
  BY Columns
<1>2. Own(1, 0, C) = Column
  BY <1>1 DEF Own
<1>3. QED
  BY <1>2 DEF Whole

(* Half the stride, twice the columns.                                     *)
LEMMA OwnHalves ==
  ASSUME NEW p, NEW d \in Nat \ {0}, NEW r \in 0 .. d - 1
  PROVE  Combine(p, Only(Own(2 * d, r, C)), Only(Own(2 * d, r + d, C))) = Only(Own(d, r, C))
<1>1. ASSUME NEW k \in Column
      PROVE  k % d = r <=> k % (2 * d) = r \/ k % (2 * d) = r + d
  <2>1. k \in Nat /\ k % d \in 0 .. d - 1
    BY Columns, Division
  <2>2. k % (2 * d) = k % d \/ k % (2 * d) = (k % d) + d
    BY <2>1, Halves
  <2>3. QED
    BY <2>1, <2>2
<1>2. Own(2 * d, r, C) \cup Own(2 * d, r + d, C) = Own(d, r, C)
  BY <1>1 DEF Own
<1>3. Own(2 * d, r, C) \cap Own(2 * d, r + d, C) = {}
  BY DEF Own
<1>4. QED
  BY <1>2, <1>3, Columns, Union

(* The lanes of a warp have one column set each, ...                       *)
LEMMA ShareOfOne ==
  ASSUME NEW m \in 1 .. B, NEW t \in Thread, t < m
  PROVE  Share(m, t \div W, W, t % W) = Own(m, t, C)
<1>1. ASSUME NEW k \in Column
      PROVE  (k % m) \div W = t \div W /\ (k % m) % W = t % W <=> k % m = t
  <2>1. k \in Nat /\ m \in Nat \ {0} /\ k % m \in 0 .. m - 1
    <3>1. k \in Nat /\ m \in Nat \ {0}
      BY Columns
    <3>2. QED
      BY <3>1, Division
  <2>2. k % m \in Thread
    BY <2>1 DEF Thread
  <2>3. /\ k % m = ((k % m) \div W) * W + ((k % m) % W)
        /\ t = (t \div W) * W + (t % W)
    BY <2>2, LaneOf
  <2>4. QED
    BY <2>3
<1>2. QED
  BY <1>1, Columns DEF Share, Own

(* ... a shuffle joins those of two lanes, ...                             *)
LEMMA ShareHalves ==
  ASSUME NEW m \in Nat \ {0}, NEW w \in Nat, NEW d \in Nat \ {0}, NEW l \in 0 .. d - 1
  PROVE  \A p : Combine(p, Only(Share(m, w, 2 * d, l)), Only(Share(m, w, 2 * d, l + d)))
                 = Only(Share(m, w, d, l))
<1>1. ASSUME NEW k \in Column
      PROVE  (k % m) % d = l <=> (k % m) % (2 * d) = l \/ (k % m) % (2 * d) = l + d
  <2>1. k % m \in Nat
    BY Columns, Division
  <2> DEFINE j == k % m
  <2>2. j \in Nat
    BY <2>1
  <2> HIDE DEF j
  <2>3. j % d \in 0 .. d - 1 /\ (j % (2 * d) = j % d \/ j % (2 * d) = (j % d) + d)
    BY <2>2, Division, Halves
  <2>4. j % d = l <=> j % (2 * d) = l \/ j % (2 * d) = l + d
    BY <2>3
  <2>5. QED
    BY <2>4 DEF j
<1>2. Share(m, w, 2 * d, l) \cup Share(m, w, 2 * d, l + d) = Share(m, w, d, l)
  BY <1>1 DEF Share
<1>3. Share(m, w, 2 * d, l) \cap Share(m, w, 2 * d, l + d) = {}
  BY DEF Share
<1>4. ASSUME NEW p
      PROVE  Combine(p, Only(Share(m, w, 2 * d, l)), Only(Share(m, w, 2 * d, l + d)))
               = Only(Share(m, w, d, l))
  BY <1>2, <1>3, Columns, Union
<1>5. QED
  BY <1>4

(* ... until one lane has those of a warp.                                 *)
LEMMA ShareOfWarp ==
  /\ \A k \in Column : k % B \in Thread /\ (k % B) % 1 = 0
  /\ \A w : Share(B, w, 1, 0) = {k \in Column : (k % B) \div W = w}
  /\ Share(W, 0, 1, 0) = Column
<1>1. ASSUME NEW k \in Column
      PROVE  k % B \in Thread /\ (k % B) % 1 = 0 /\ (k % W) % 1 = 0 /\ (k % W) \div W = 0
  <2>1. k \in Nat /\ k % B \in 0 .. B - 1 /\ k % W \in 0 .. W - 1
    BY Columns, Division
  <2>2. (0 * W + (k % W)) \div W = 0 /\ 0 * W + (k % W) = k % W
    BY <2>1, WholePart
  <2>3. QED
    BY <2>1, <2>2 DEF Thread
<1>2. QED
  BY <1>1 DEF Share

(* The warps one after the other.                                          *)
LEMMA BelowStep ==
  /\ Below(1) = Share(B, 0, 1, 0)
  /\ \A p : \A j \in Nat :
       Combine(p, Only(Below(j)), Only(Share(B, j, 1, 0))) = Only(Below(j + 1))
  /\ Below(B \div W) = Column
<1>1. ASSUME NEW k \in Column PROVE (k % B) \div W \in Nat /\ (k % B) \div W < B \div W
  <2>1. (k % B) \div W \in Warp
    BY ShareOfWarp, LaneOf
  <2>2. QED
    BY <2>1, Warps DEF Warp
<1>2. Below(1) = Share(B, 0, 1, 0)
  BY <1>1, ShareOfWarp DEF Below
<1>3. ASSUME NEW p, NEW j \in Nat
      PROVE  Combine(p, Only(Below(j)), Only(Share(B, j, 1, 0))) = Only(Below(j + 1))
  <2>1. Below(j) \cup Share(B, j, 1, 0) = Below(j + 1)
    BY <1>1, ShareOfWarp DEF Below
  <2>2. Below(j) \cap Share(B, j, 1, 0) = {}
    BY <1>1, ShareOfWarp DEF Below
  <2>3. QED
    BY <2>1, <2>2, Columns, Union
<1>4. Below(B \div W) = Column
  BY <1>1 DEF Below
<1>5. QED
  BY <1>2, <1>3, <1>4

(* The distances of the shuffles and the strides of kernel2.               *)
LEMMA Halving ==
  ASSUME NEW n \in Nat \ {0}, PowerOfTwo(n), NEW d \in Nat \ {0}, n % (2 * d) = 0
  PROVE  /\ n % d = 0
         /\ d = 1 => d \div 2 = 0
         /\ d # 1 => d = 2 * (d \div 2) /\ d \div 2 \in Nat \ {0}
<1>1. PICK q \in Nat : n = q * (2 * d)
  BY Quotient
<1>2. n = (2 * q) * d /\ 2 * q \in Nat
  BY <1>1
<1>3. n % d = 0
  BY <1>2, Multiple
<1>4. d = 1 \/ d % 2 = 0
  BY <1>3 DEF PowerOfTwo
<1>5. QED
  BY <1>3, <1>4

LEMMA FirstHalf ==
  ASSUME NEW n \in Nat \ {0, 1}, PowerOfTwo(n)
  PROVE  n = 2 * (n \div 2) /\ n \div 2 \in Nat \ {0} /\ n % (2 * (n \div 2)) = 0
<1>1. n % n = 0
  <2>1. (1 * n) % n = 0 /\ 1 * n = n
    BY Multiple
  <2>2. QED
    BY <2>1
<1>2. n % 2 = 0
  BY <1>1 DEF PowerOfTwo
<1>3. n = 2 * (n \div 2) /\ n \div 2 \in Nat \ {0}
  BY <1>2
<1>4. QED
  BY <1>1, <1>3
-----------------------------------------------------------------------------
(* The steps of a thread                                                   *)

IndInv == Lanewise /\ Rows /\ Cells2 /\ Cells4

Others(t) ==
  \A u \in Thread \ {t} :
    /\ pc'[u] = pc[u] /\ pass'[u] = pass[u] /\ col'[u] = col[u]
    /\ part'[u] = part[u] /\ total'[u] = total[u] /\ cell'[u] = cell[u]

(* A step of t leaves the others what they have.                           *)
LEMMA OneLane ==
  ASSUME TypeOK, Lanewise, NEW t \in Thread, Others(t), dist' = dist,
         kernel' = kernel, Dim' = Dim, Lane(t)'
  PROVE  Lanewise'
<1>1. ASSUME NEW u \in Thread, u # t PROVE Lane(u)'
  <2>1. /\ pc'[u] = pc[u] /\ col'[u] = col[u]
        /\ part'[u] = part[u] /\ total'[u] = total[u] /\ cell'[u] = cell[u]
    BY <1>1 DEF Others
  <2>2. Lane(u)
    BY DEF Lanewise
  <2>3. QED
    BY <2>1, <2>2 DEF Lane
<1>2. QED
  BY <1>1 DEF Lanewise

(* It has to account for its own columns only.                             *)
LEMMA OneRow ==
  ASSUME TypeOK, Shape, InStep, Rows, NEW t \in Running, Others(t),
         kernel' = kernel, Dim' = Dim,
         Rank(t) = 3 => Rank(t)' = 3,
         \A i \in Column :
           \/ kernel = "kernel4" /\ Rank(t) = 3
           \/ i % Dim # t /\ row'[i] = row[i]
           \/ i % Dim = t /\ (row[i] = Written(t, i) => row'[i] = Written(t, i)')
  PROVE  Rows'
<1>0. 0 \in Running /\ Running \subseteq Thread /\ Dim \in 1 .. B
  BY Launch DEF TypeOK, Running
<1>1. CASE kernel = "kernel4" /\ Rank(0) = 3
  <2>1. Rank(0)' = 3
    <3>1. CASE t = 0
      BY <1>1, <3>1
    <3>2. CASE t # 0
      BY <1>0, <1>1, <3>2 DEF Others, Rank
    <3>3. QED
      BY <3>1, <3>2
  <2>2. QED
    BY <1>1, <2>1 DEF Rows
<1>2. CASE ~(kernel = "kernel4" /\ Rank(0) = 3)
  <2>1. ~(kernel = "kernel4" /\ Rank(t) = 3)
    BY <1>0, <1>2 DEF InStep, Group
  <2>2. ASSUME NEW i \in Column PROVE row'[i] = Written(i % Dim, i)'
    <3>1. row[i] = Written(i % Dim, i)
      BY <1>2 DEF Rows
    <3>2. i % Dim \in Thread
      <4>1. i \in Nat /\ Dim \in Nat \ {0}
        BY <1>0, Columns
      <4>2. i % Dim \in 0 .. Dim - 1
        BY <4>1, Division
      <4>3. QED
        BY <1>0, <4>2 DEF Thread
    <3>3. CASE i % Dim = t
      BY <2>1, <3>1, <3>3
    <3>4. CASE i % Dim # t
      <4>1. Written(i % Dim, i)' = Written(i % Dim, i)
        <5>1. /\ pc'[i % Dim] = pc[i % Dim] /\ pass'[i % Dim] = pass[i % Dim]
              /\ col'[i % Dim] = col[i % Dim]
          BY <3>2, <3>4 DEF Others
        <5>2. QED
          BY <5>1 DEF Written, Rank
      <4>2. QED
        BY <2>1, <3>1, <3>4, <4>1
    <3>5. QED
      BY <3>3, <3>4
  <2>3. QED
    BY <2>2 DEF Rows
<1>3. QED
  BY <1>1, <1>2

(* Outside of the reductions shared memory is left alone.                  *)
LEMMA SameCells ==
  ASSUME TypeOK, Shape, InStep, Cells2, Cells4, NEW t \in Running, Others(t),
         kernel' = kernel, stride' = stride, stride = 0, shared' = shared,
         pc'[t] \notin {"wait", "read", "store"}
  PROVE  Cells2' /\ Cells4'
<1>0. /\ \A u \in Thread : pc'[u] \in {"wait", "read", "store"} => u # t
      /\ \A u \in Thread : u # t =>
           /\ pc'[u] = pc[u] /\ part'[u] = part[u]
           /\ \A k : Slot(u, k)' = Slot(u, k)
  BY DEF Others, Slot
<1>1. Cells2'
  BY <1>0 DEF Cells2
<1>2. Cells4'
  <2> SUFFICES ASSUME kernel = "kernel4", NEW u \in Thread
               PROVE  /\ pc'[u] = "wait" /\ u % W = 0
                           => shared[Slot(u, u \div W)'] = Only(Share(B, u \div W, 1, 0))
                      /\ pc'[u] = "read" => shared[Slot(u, 0)'] = Whole
    BY DEF Cells4
  <2>1. QED
    BY <1>0 DEF Cells4
<1>3. QED
  BY <1>1, <1>2

(* A column is not less than the first of its remainder.                   *)
LEMMA FirstColumn ==
  ASSUME NEW m \in Nat \ {0}, NEW t \in 0 .. m - 1
  PROVE  /\ \A i \in Column : i % m = t => ~(i < t)
         /\ t % m = t
         /\ Only(Own(m, t, t)) = Only({})
<1>1. t % m = t /\ Only(Own(m, t, t)) = Only({})
  BY OwnStart
<1>2. ASSUME NEW i \in Column, i % m = t PROVE ~(i < t)
  <2>1. i \in Nat
    BY Columns
  <2>2. i < t => i \in 0 .. m - 1
    BY <2>1
  <2>3. i < t => i % m = i
    BY <2>2, OwnStart
  <2>4. QED
    BY <1>2, <2>3
<1>3. QED
  BY <1>1, <1>2

Good == TypeOK /\ Shape /\ InStep /\ IndInv

SameLaunch == kernel' = kernel /\ Dim' = Dim /\ Running' = Running

(* What every step of a thread may use.                                    *)
LEMMA Facts ==
  ASSUME Good, NEW t \in Running
  PROVE  /\ t \in Thread /\ t \in Nat /\ t \in 0 .. Dim - 1 /\ t < Dim
         /\ Dim \in Nat \ {0} /\ Dim \in 1 .. B
         /\ kernel \in {"kernel1", "kernel2", "kernel3", "kernel4"}
         /\ col[t] \in Nat /\ pass[t] \in {"max", "sum"}
         /\ col[t] < C => col[t] \in Column
         /\ Lane(t)
         /\ IF stride > 0 THEN pc[t] \in {"round", "store", "wait"}
                          ELSE stride = 0 /\ pc[t] \notin {"round", "store"}
         /\ kernel = "kernel1" => t = 0 /\ Dim = 1
         /\ kernel = "kernel3" => Dim = W
         /\ kernel \in {"kernel2", "kernel4"} => Dim = B /\ Running = Thread
<1>1. t \in Thread /\ t \in Nat /\ t < Dim /\ Dim \in 1 .. B
  BY Launch DEF Good, TypeOK, Running, Thread
<1>2. /\ kernel = "kernel1" => t = 0 /\ Dim = 1
      /\ kernel = "kernel3" => Dim = W
      /\ kernel \in {"kernel2", "kernel4"} => Dim = B /\ Running = Thread
      /\ kernel \in {"kernel1", "kernel2", "kernel3", "kernel4"}
  BY Launch DEF Good, TypeOK
<1>3. /\ col[t] \in Nat /\ pass[t] \in {"max", "sum"}
      /\ col[t] < C => col[t] \in Column
  BY <1>1 DEF Good, TypeOK, Column
<1>4. IF stride > 0 THEN pc[t] \in {"round", "store", "wait"}
                    ELSE stride = 0 /\ pc[t] \notin {"round", "store"}
  BY DEF Good, InStep, TypeOK
<1>5. Lane(t)
  BY <1>1 DEF Good, IndInv, Lanewise
<1>6. QED
  BY <1>1, <1>2, <1>3, <1>4, <1>5

(* A thread takes the next of its columns: in the second pass it finds     *)
(* there the exponential that it wrote.                                    *)
LEMMA GatherKeeps ==
  ASSUME Good, SameLaunch, NEW t \in Running, Gather(t)
  PROVE  IndInv'
<1> DEFINE c == col[t]
<1>0. /\ pc[t] = "gather" /\ c \in Column /\ c \in Nat
      /\ part' = [part EXCEPT ![t] = Combine(pass[t], part[t], Term(t, c))]
      /\ col' = [col EXCEPT ![t] = c + Dim]
      /\ UNCHANGED <<kernel, pc, pass, total, cell, shared, row, stride, dist>>
  BY Facts DEF Gather, Advance
<1>1. c % Dim = t /\ part[t] = Only(Own(Dim, t, c)) /\ stride = 0 /\ dist[t \div W] = W \div 2
  BY <1>0, Facts DEF Lane
<1>2. Term(t, c) = Only({c})
  <2>1. CASE pass[t] = "max"
    BY <2>1 DEF Term
  <2>2. CASE pass[t] = "sum"
    <3>1. Rank(t) = 2
      BY <1>0, <2>2 DEF Rank
    <3>2. 0 \in Running /\ Group(0) = Group(t)
      BY Launch DEF Good, TypeOK, InStep
    <3>3. ~(kernel = "kernel4" /\ Rank(0) = 3)
      BY <3>1, <3>2 DEF Group
    <3>4. row[c] = Written(t, c)
      BY <1>0, <1>1, <3>3 DEF Good, IndInv, Rows
    <3>5. row[c] = "exp"
      BY <1>0, <3>1, <3>4 DEF Written
    <3>6. QED
      BY <3>5 DEF Term
  <2>3. QED
    BY <2>1, <2>2, Facts
<1> HIDE DEF c
<1>3. /\ Combine(pass[t], part[t], Term(t, c)) = Only(Own(Dim, t, c + Dim))
      /\ (c + Dim) % Dim = t
  <2>1. Dim \in Nat \ {0}
    BY Facts
  <2>2. /\ Combine(pass[t], Only(Own(Dim, t, c)), Only({c})) = Only(Own(Dim, t, c + Dim))
        /\ (c + Dim) % Dim = t
    <3>1. c \in Column /\ c % Dim = t
      BY <1>0, <1>1
    <3>2. QED
      BY ONLY <2>1, <3>1, OwnStep
  <2>3. QED
    BY <1>1, <1>2, <2>2
<1>4. part'[t] = Only(Own(Dim, t, c + Dim)) /\ col'[t] = c + Dim
  BY <1>0, <1>3, Facts DEF Good, TypeOK
<1>5. part'[t][Junk] = 0
  BY <1>4, NoJunk, Columns
<1>6. Lane(t)'
  BY <1>0, <1>1, <1>3, <1>4, <1>5 DEF Lane, SameLaunch
<1>7. Others(t)
  BY <1>0, Facts DEF Others, Good, TypeOK
<1>8. Lanewise'
  BY <1>0, <1>6, <1>7, OneLane, Facts DEF Good, IndInv, SameLaunch
<1>9. Rows'
  <2>1. Rank(t)' = Rank(t) /\ \A i \in Column : Written(t, i)' = Written(t, i)
    BY <1>0 DEF Rank, Written
  <2>2. QED
    BY <1>0, <1>7, <2>1, OneRow DEF Good, IndInv, SameLaunch
<1>10. Cells2' /\ Cells4'
  BY <1>0, <1>1, <1>7, SameCells DEF Good, IndInv
<1>11. QED
  BY <1>8, <1>9, <1>10 DEF IndInv

(* It has all of its columns.                                              *)
LEMMA GatheredKeeps ==
  ASSUME Fitting, Good, SameLaunch, NEW t \in Running, Gathered(t)
  PROVE  IndInv'
<1>0. /\ pc[t] = "gather" /\ col[t] >= C /\ kernel # "kernel1"
      /\ pc' = [pc EXCEPT ![t] = IF kernel = "kernel2" THEN "publish" ELSE "shuffle"]
      /\ UNCHANGED <<kernel, pass, col, part, total, cell, shared, row, stride, dist>>
  BY DEF Gathered, Goto
<1>1. /\ part[t] = Only(Own(Dim, t, col[t])) /\ stride = 0 /\ dist[t \div W] = W \div 2
      /\ part[t][Junk] = 0
  BY <1>0, Facts DEF Lane
<1>2. part[t] = Only(Own(Dim, t, C))
  BY <1>0, <1>1, Facts, OwnEnd
<1>3. pc'[t] = IF kernel = "kernel2" THEN "publish" ELSE "shuffle"
  BY <1>0, Facts DEF Good, TypeOK
<1>4. kernel # "kernel2" => part[t] = Only(Share(Dim, t \div W, Width(W \div 2), t % W))
  <2>1. ASSUME kernel # "kernel2" PROVE Width(W \div 2) = W
    <3>1. "kernel3" \in Kernels \/ "kernel4" \in Kernels
      BY <1>0, <2>1, Facts DEF Good, TypeOK
    <3>2. QED
      BY <3>1, FirstHalf DEF Fitting, Width
  <2>2. Share(Dim, t \div W, W, t % W) = Own(Dim, t, C)
    BY Facts, ShareOfOne
  <2>3. QED
    BY <1>2, <2>1, <2>2
<1>5. Lane(t)'
  BY <1>0, <1>1, <1>2, <1>3, <1>4, Facts DEF Lane, SameLaunch
<1>6. Others(t)
  BY <1>0, Facts DEF Others, Good, TypeOK
<1>7. Lanewise'
  BY <1>0, <1>5, <1>6, OneLane, Facts DEF Good, IndInv, SameLaunch
<1>8. Rows'
  <2>1. Rank(t)' = Rank(t) /\ \A i \in Column : Written(t, i)' = Written(t, i)
    BY <1>0, <1>3 DEF Rank, Written
  <2>2. QED
    BY <1>0, <1>6, <2>1, OneRow DEF Good, IndInv, SameLaunch
<1>9. Cells2' /\ Cells4'
  BY <1>0, <1>1, <1>3, <1>6, SameCells DEF Good, IndInv
<1>10. QED
  BY <1>7, <1>8, <1>9 DEF IndInv

(* The one thread of kernel1 has the maximum, ...                          *)
LEMMA AloneKeeps ==
  ASSUME Good, SameLaunch, NEW t \in Running, GatheredAlone(t) \/ ExpAdded(t)
  PROVE  IndInv'
<1>0. /\ pc[t] \in {"gather", "expadd"} /\ col[t] >= C
      /\ total' = [total EXCEPT ![t] = part[t]]
      /\ col' = [col EXCEPT ![t] = 0]
      /\ UNCHANGED <<kernel, cell, shared, row, stride, dist>>
  BY DEF GatheredAlone, ExpAdded
<1>1. kernel = "kernel1" /\ t = 0 /\ Dim = 1
  BY Facts DEF GatheredAlone, ExpAdded, Good, Shape, Labels
<1>2. /\ part[t] = Only(Own(1, 0, col[t])) /\ stride = 0 /\ dist[t \div W] = W \div 2
      /\ part[t][Junk] = 0
  BY <1>0, <1>1, Facts DEF Lane
<1>3. part[t] = Whole
  BY <1>0, <1>1, <1>2, Facts, OwnEnd, OwnWhole
<1>4. total'[t] = Whole /\ col'[t] = 0 /\ 0 % 1 = 0 /\ Only(Own(1, 0, 0)) = Only({})
  BY <1>0, <1>3, Facts, FirstColumn DEF Good, TypeOK
<1>5. \/ pc[t] = "gather" /\ pc'[t] = "expadd" /\ part'[t] = Only({})
            /\ pass[t] = "max" /\ pass'[t] = "sum"
      \/ pc[t] = "expadd" /\ pc'[t] = "load" /\ part'[t] = part[t]
            /\ pass[t] = "sum" /\ pass'[t] = "sum"
  BY <1>1, Facts DEF GatheredAlone, ExpAdded, Goto, Good, TypeOK, Shape
<1>6. part'[t][Junk] = 0
  BY <1>2, <1>5, NoJunk
<1>7. Lane(t)'
  BY <1>0, <1>1, <1>2, <1>4, <1>5, <1>6 DEF Lane, SameLaunch
<1>8. Others(t)
  BY Facts DEF Others, Good, TypeOK, GatheredAlone, ExpAdded, Goto
<1>9. Lanewise'
  BY <1>0, <1>7, <1>8, OneLane, Facts DEF Good, IndInv, SameLaunch
<1>10. Rows'
  <2>1. \A i \in Column : i \in Nat /\ i < C /\ i < col[t] /\ ~(i < 0)
    BY <1>0, Columns, Facts
  <2>2. Rank(t) # 3 /\ \A i \in Column : Written(t, i)' = Written(t, i)
    BY <1>4, <1>5, <2>1 DEF Rank, Written
  <2>3. \A i \in Column : i % Dim = t
    BY <1>1, Columns
  <2>4. QED
    BY <1>0, <1>8, <2>2, <2>3, OneRow DEF Good, IndInv, SameLaunch
<1>11. Cells2' /\ Cells4'
  BY <1>0, <1>2, <1>5, <1>8, SameCells DEF Good, IndInv
<1>12. QED
  BY <1>9, <1>10, <1>11 DEF IndInv

(* ... and sums the exponentials up as it writes them; so do, without the  *)
(* sum, the threads of the others.                                         *)
LEMMA ExpKeeps ==
  ASSUME Good, SameLaunch, NEW t \in Running, ExpAdd(t) \/ Exp(t)
  PROVE  IndInv'
<1> DEFINE c == col[t]
<1>0. /\ pc[t] \in {"exp", "expadd"} /\ c \in Column /\ c \in Nat
      /\ row' = [row EXCEPT ![c] = IF total[t] = Whole THEN "exp" ELSE "bad"]
      /\ UNCHANGED <<kernel, pc, pass, total, cell, shared, stride, dist>>
  BY Facts DEF ExpAdd, Exp
<1>1. /\ c % Dim = t /\ total[t] = Whole /\ stride = 0 /\ dist[t \div W] = W \div 2
      /\ pc[t] = "expadd" => part[t] = Only(Own(Dim, t, c))
      /\ part[t][Junk] = 0
  BY <1>0, Facts DEF Lane
<1>2. row' = [row EXCEPT ![c] = "exp"] /\ row'[c] = "exp"
  BY <1>0, <1>1 DEF Good, TypeOK
<1>3. col' = [col EXCEPT ![t] = c + Dim]
  <2>1. ExpAdd(t) => Dim = 1
    BY Facts DEF ExpAdd, Good, Shape, Labels
  <2>2. QED
    BY <2>1 DEF ExpAdd, Exp, Advance
<1>4. /\ Combine("sum", Only(Own(Dim, t, c)), Only({c})) = Only(Own(Dim, t, c + Dim))
      /\ (c + Dim) % Dim = t
  <2>1. c \in Column /\ c % Dim = t /\ Dim \in Nat \ {0}
    BY <1>0, <1>1, Facts
  <2>2. QED
    BY ONLY <2>1, OwnStep
<1>5. /\ pc[t] = "expadd" => part' = [part EXCEPT ![t] = Only(Own(Dim, t, c + Dim))]
      /\ pc[t] = "exp" => part' = part
  BY <1>1, <1>2, <1>4 DEF ExpAdd, Exp
<1> HIDE DEF c
<1>6. col'[t] = c + Dim /\ part'[t][Junk] = 0
      /\ (pc[t] = "expadd" => part'[t] = Only(Own(Dim, t, c + Dim)))
  <2>1. Only(Own(Dim, t, c + Dim))[Junk] = 0
    BY NoJunk, Columns
  <2>2. QED
    BY <1>0, <1>1, <1>3, <1>5, <2>1, Facts DEF Good, TypeOK
<1>7. Lane(t)'
  BY <1>0, <1>1, <1>4, <1>6 DEF Lane, SameLaunch
<1>8. Others(t)
  BY <1>0, <1>3, <1>5, Facts DEF Others, Good, TypeOK
<1>9. Lanewise'
  BY <1>0, <1>7, <1>8, OneLane, Facts DEF Good, IndInv, SameLaunch
<1>10. Rows'
  <2>1. Rank(t)' = Rank(t)
    BY <1>0 DEF Rank
  <2>2. ASSUME NEW i \in Column, i % Dim = t, row[i] = Written(t, i)
        PROVE  row'[i] = Written(t, i)'
    <3>1. i < c + Dim <=> i < c \/ i = c
      <4>1. i \in Nat /\ Dim \in Nat \ {0} /\ c \in Nat /\ c % Dim = t
        BY <1>0, <1>1, Columns, Facts
      <4>2. i < c + Dim => i <= c
        BY ONLY <2>2, <4>1, ResidueGap
      <4>3. QED
        BY <4>1, <4>2
    <3>2. Written(t, i) = IF i < c THEN "exp" ELSE "none"
      BY <1>0 DEF Written, c
    <3>3. Written(t, i)' = IF i < c + Dim THEN "exp" ELSE "none"
      BY <1>0, <1>6 DEF Written
    <3>4. row'[i] = IF i = c THEN "exp" ELSE row[i]
      BY <1>2 DEF Good, TypeOK
    <3>5. QED
      BY <2>2, <3>1, <3>2, <3>3, <3>4
  <2>3. \A i \in Column : i % Dim # t => row'[i] = row[i]
    BY <1>1, <1>2 DEF Good, TypeOK
  <2>4. QED
    BY <1>8, <2>1, <2>2, <2>3, OneRow DEF Good, IndInv, SameLaunch
<1>11. Cells2' /\ Cells4'
  BY <1>0, <1>1, <1>8, SameCells DEF Good, IndInv
<1>12. QED
  BY <1>9, <1>10, <1>11 DEF IndInv

(* The second pass starts like the first.                                  *)
LEMMA ExpEndsKeeps ==
  ASSUME Good, SameLaunch, NEW t \in Running, ExpEnds(t)
  PROVE  IndInv'
<1>0. /\ pc[t] = "exp" /\ col[t] >= C
      /\ pc' = [pc EXCEPT ![t] = IF kernel = "kernel2" THEN "sync" ELSE "gather"]
      /\ pass' = [pass EXCEPT ![t] = "sum"]
      /\ part' = [part EXCEPT ![t] = Only({})]
      /\ col' = [col EXCEPT ![t] = t]
      /\ UNCHANGED <<kernel, total, cell, shared, row, stride, dist>>
  BY DEF ExpEnds, Goto, AfterExp
<1>1. /\ stride = 0 /\ dist[t \div W] = W \div 2
      /\ pc'[t] = IF kernel = "kernel2" THEN "sync" ELSE "gather"
      /\ pass'[t] = "sum" /\ part'[t] = Only({}) /\ col'[t] = t
  BY <1>0, Facts DEF Lane, Good, TypeOK
<1>2. t % Dim = t /\ Only(Own(Dim, t, t)) = Only({}) /\ Only({})[Junk] = 0
  BY Facts, FirstColumn, NoJunk
<1>3. Lane(t)'
  BY <1>0, <1>1, <1>2 DEF Lane, SameLaunch
<1>4. Others(t)
  BY <1>0, Facts DEF Others, Good, TypeOK
<1>5. Lanewise'
  BY <1>0, <1>3, <1>4, OneLane, Facts DEF Good, IndInv, SameLaunch
<1>6. Rows'
  <2>1. \A i \in Column : i < col[t]
    BY <1>0, Columns, Facts
  <2>2. Rank(t) # 3 /\ \A i \in Column : Written(t, i)' = Written(t, i)
    BY <1>0, <1>1, <2>1 DEF Rank, Written
  <2>3. QED
    BY <1>0, <1>4, <2>2, OneRow DEF Good, IndInv, SameLaunch
<1>7. Cells2' /\ Cells4'
  BY <1>0, <1>1, <1>4, SameCells DEF Good, IndInv
<1>8. QED
  BY <1>5, <1>6, <1>7 DEF IndInv

(* Every thread reads the whole of the row from shared memory.             *)
LEMMA ReadKeeps ==
  ASSUME Good, SameLaunch, NEW t \in Running, Read(t)
  PROVE  IndInv'
<1>0. /\ pc[t] = "read"
      /\ total' = [total EXCEPT ![t] = shared[Slot(t, 0)]]
      /\ col' = [col EXCEPT ![t] = t]
      /\ pc' = [pc EXCEPT ![t] = IF pass[t] = "max" THEN "exp" ELSE "load"]
      /\ UNCHANGED <<kernel, pass, part, cell, shared, row, stride, dist>>
  BY DEF Read, Goto
<1>1. shared[Slot(t, 0)] = Whole
  <2>1. kernel \in {"kernel2", "kernel4"} /\ t \in Thread
    BY <1>0, Facts DEF Good, Shape, Labels
  <2>2. CASE kernel = "kernel2"
    BY <1>0, <2>1, <2>2 DEF Good, IndInv, Cells2, Slot
  <2>3. CASE kernel = "kernel4"
    BY <1>0, <2>1, <2>3 DEF Good, IndInv, Cells4
  <2>4. QED
    BY <2>1, <2>2, <2>3
<1>2. /\ stride = 0 /\ dist[t \div W] = W \div 2 /\ part[t][Junk] = 0
      /\ pc'[t] = IF pass[t] = "max" THEN "exp" ELSE "load"
      /\ total'[t] = Whole /\ col'[t] = t
  BY <1>0, <1>1, Facts DEF Lane, Good, TypeOK
<1>3. t % Dim = t /\ \A i \in Column : i % Dim = t => ~(i < t)
  BY Facts, FirstColumn
<1>4. Lane(t)'
  BY <1>0, <1>2, <1>3 DEF Lane, SameLaunch
<1>5. Others(t)
  BY <1>0, Facts DEF Others, Good, TypeOK
<1>6. Lanewise'
  BY <1>0, <1>4, <1>5, OneLane, Facts DEF Good, IndInv, SameLaunch
<1>7. Rows'
  <2>1. Rank(t)' = Rank(t)
    BY <1>0, <1>2 DEF Rank
  <2>2. \A i \in Column : i % Dim = t => Written(t, i)' = Written(t, i)
    BY <1>0, <1>2, <1>3 DEF Rank, Written
  <2>3. QED
    BY <1>0, <1>5, <2>1, <2>2, OneRow DEF Good, IndInv, SameLaunch
<1>8. Cells2' /\ Cells4'
  BY <1>0, <1>2, <1>5, SameCells DEF Good, IndInv
<1>9. QED
  BY <1>6, <1>7, <1>8 DEF IndInv

(* The division takes the exponential out of a column of its own.          *)
LEMMA DivideKeeps ==
  ASSUME Good, SameLaunch, NEW t \in Running, Load(t) \/ Save(t) \/ Finish(t)
  PROVE  IndInv'
<1> DEFINE c == col[t]
<1>0. /\ pc[t] \in {"load", "save"} /\ stride = 0
      /\ c \in Nat
      /\ UNCHANGED <<kernel, pass, part, total, shared, stride, dist>>
  BY Facts DEF Load, Save, Finish
<1>1. /\ dist[t \div W] = W \div 2 /\ part[t][Junk] = 0 /\ total[t] = Whole
      /\ kernel # "kernel4" => c % Dim = t
      /\ kernel # "kernel4" /\ pc[t] = "save" => cell[t] = "exp"
  BY <1>0, Facts DEF Lane
<1>2. Others(t)
  BY Facts DEF Others, Good, TypeOK, Load, Save, Finish, Goto, Advance
<1>3. pc'[t] \in {"load", "save", "done"}
  BY Facts DEF Good, TypeOK, Load, Save, Finish, Goto
<1>4. Rank(t) = 3 /\ Rank(t)' = 3
  BY <1>0, <1>3 DEF Rank
<1>5. Cells2' /\ Cells4'
  BY <1>0, <1>2, <1>3, SameCells DEF Good, IndInv
<1>6. CASE kernel = "kernel4"
  <2>1. Lane(t)'
    BY <1>0, <1>1, <1>3, <1>6 DEF Lane, SameLaunch
  <2>2. Rows'
    BY <1>2, <1>4, <1>6, OneRow DEF Good, IndInv, SameLaunch
  <2>3. QED
    BY <1>0, <1>2, <1>5, <2>1, <2>2, OneLane, Facts DEF Good, IndInv, SameLaunch
<1>7. CASE kernel # "kernel4" /\ Load(t)
  <2>1. /\ pc[t] = "load" /\ c \in Column /\ row' = row /\ col' = col
        /\ cell'[t] = row[c] /\ pc'[t] = "save"
    BY <1>7, Facts DEF Load, Goto, Good, TypeOK
  <2>2. row[c] = "exp"
    <3>1. row[c] = Written(t, c)
      BY <1>1, <1>7, <2>1 DEF Good, IndInv, Rows
    <3>2. QED
      BY <1>0, <2>1, <3>1 DEF Written
  <2>3. Lane(t)'
    BY <1>0, <1>1, <1>7, <2>1, <2>2 DEF Lane, SameLaunch
  <2>4. \A i \in Column : Written(t, i)' = Written(t, i)
    BY <2>1 DEF Written
  <2>5. Rows'
    BY <1>2, <1>4, <2>1, <2>4, OneRow DEF Good, IndInv, SameLaunch
  <2>6. QED
    BY <1>0, <1>2, <1>5, <2>3, <2>5, OneLane, Facts DEF Good, IndInv, SameLaunch
<1>8. CASE kernel # "kernel4" /\ Save(t)
  <2>1. /\ pc[t] = "save" /\ c \in Column /\ cell' = cell /\ pc'[t] = "load"
        /\ row' = [row EXCEPT ![c] = "out"] /\ col'[t] = c + Dim
    <3>1. c < C
      BY <1>8, Facts DEF Save, Good, Shape
    <3>2. SaveStep = Dim
      BY <1>8 DEF SaveStep
    <3>3. QED
      BY <1>1, <1>8, <3>1, <3>2, Facts DEF Save, Goto, Advance, Good, TypeOK
  <2>2. Dim \in Nat \ {0} /\ c % Dim = t
    BY <1>1, <1>8, Facts
  <2> HIDE DEF c
  <2>3. (c + Dim) % Dim = t
    BY ONLY <1>0, <2>2, StepKeepsRemainder
  <2>4. Lane(t)'
    BY <1>0, <1>1, <1>8, <2>1, <2>3 DEF Lane, SameLaunch
  <2>5. ASSUME NEW i \in Column, i % Dim = t, row[i] = Written(t, i)
        PROVE  row'[i] = Written(t, i)'
    <3>1. i < c + Dim <=> i < c \/ i = c
      <4>1. i \in Nat
        BY Columns
      <4>2. i < c + Dim => i <= c
        BY ONLY <1>0, <2>2, <2>5, <4>1, ResidueGap
      <4>3. QED
        BY <1>0, <2>2, <4>1, <4>2
    <3>2. Written(t, i) = IF i < c THEN "out" ELSE "exp"
      BY <2>1 DEF Written, c
    <3>3. Written(t, i)' = IF i < c + Dim THEN "out" ELSE "exp"
      BY <2>1 DEF Written
    <3>4. row'[i] = IF i = c THEN "out" ELSE row[i]
      BY <2>1 DEF Good, TypeOK
    <3>5. QED
      BY <2>5, <3>1, <3>2, <3>3, <3>4
  <2>6. \A i \in Column : i % Dim # t => row'[i] = row[i]
    BY <2>1, <2>2 DEF Good, TypeOK
  <2>7. Rows'
    BY <1>2, <1>4, <2>5, <2>6, OneRow DEF Good, IndInv, SameLaunch
  <2>8. QED
    BY <1>0, <1>2, <1>5, <2>4, <2>7, OneLane, Facts DEF Good, IndInv, SameLaunch
<1>9. CASE kernel # "kernel4" /\ Finish(t)
  <2>1. /\ pc[t] = "load" /\ c >= C /\ row' = row
        /\ cell' = cell /\ pc'[t] = "done"
    BY <1>9, Facts DEF Finish, Goto, Good, TypeOK
  <2>2. Lane(t)'
    BY <1>0, <1>1, <2>1 DEF Lane, SameLaunch
  <2>3. \A i \in Column : i < c
    BY <1>0, <2>1, Columns
  <2>4. \A i \in Column : Written(t, i)' = Written(t, i)
    BY <2>1, <2>3 DEF Written
  <2>5. Rows'
    BY <1>2, <1>4, <2>1, <2>4, OneRow DEF Good, IndInv, SameLaunch
  <2>6. QED
    BY <1>0, <1>2, <1>5, <2>2, <2>5, OneLane, Facts DEF Good, IndInv, SameLaunch
<1>10. QED
  BY <1>6, <1>7, <1>8, <1>9

-----------------------------------------------------------------------------
(* Shared memory                                                           *)

(* The threads of a round have the cells of one array.                     *)
LEMMA OneArray ==
  ASSUME Good, NEW t \in Running, NEW u \in Running,
         pc[t] \in {"publish", "wait", "round", "store"},
         pc[u] \in {"publish", "wait", "round", "store"}
  PROVE  pass[t] = pass[u] /\ \A k : Slot(t, k) = Slot(u, k)
<1>1. pass[t] = pass[u]
  BY OnePass DEF Good
<1>2. QED
  BY <1>1 DEF Slot

(* A thread that works in shared memory alters nothing else.               *)
LEMMA SharedStep ==
  ASSUME Good, SameLaunch, NEW t \in Running,
         Publish(t) \/ Skip(t) \/ Store(t) \/ Fetch(t),
         part'[t][Junk] = 0
  PROVE  /\ Lanewise' /\ Rows' /\ Others(t)
         /\ kernel \in {"kernel2", "kernel4"} /\ kernel' = kernel /\ stride' = stride
         /\ pass' = pass /\ \A u, k : Slot(u, k)' = Slot(u, k)
<1>0. /\ pc[t] \in {"publish", "round", "store"} /\ pc'[t] \in {"wait", "round", "store"}
      /\ UNCHANGED <<kernel, pass, total, cell, row, stride, dist>>
      /\ kernel \in {"kernel2", "kernel4"}
  BY Facts DEF Publish, Skip, Store, Fetch, Goto, Good, TypeOK, Shape, Labels
<1>1. dist[t \div W] = W \div 2
  BY <1>0, Facts DEF Lane
<1>2. Lane(t)'
  BY <1>0, <1>1 DEF Lane, SameLaunch
<1>3. Others(t)
  BY Facts DEF Others, Good, TypeOK, Publish, Skip, Store, Fetch, Goto, Advance
<1>4. Lanewise'
  BY <1>0, <1>2, <1>3, OneLane, Facts DEF Good, IndInv, SameLaunch
<1>5. Rows'
  <2>1. Rank(t)' = Rank(t) /\ \A i \in Column : Written(t, i)' = Written(t, i)
    BY <1>0 DEF Rank, Written
  <2>2. QED
    BY <1>0, <1>3, <2>1, OneRow DEF Good, IndInv, SameLaunch
<1>6. \A u, k : Slot(u, k)' = Slot(u, k)
  BY <1>0 DEF Slot
<1>7. QED
  BY <1>0, <1>3, <1>4, <1>5, <1>6

(* Nobody reads the result of a reduction that is still going on: in        *)
(* kernel4 those that do are in the first pass, and its array is another.  *)
LEMMA Readers ==
  ASSUME Good, NEW t \in Running, NEW u \in Running, kernel \in {"kernel2", "kernel4"},
         pc[t] \in {"publish", "wait", "round", "store"}, pc[u] = "read"
  PROVE  kernel = "kernel4" /\ pass[t] = "sum" /\ pass[u] = "max"
<1>1. Group(t) = Group(u)
  BY DEF Good, InStep
<1>2. pass[t] \in {"max", "sum"} /\ pass[u] \in {"max", "sum"}
  BY Facts
<1>3. QED
  BY <1>1, <1>2 DEF Group, Rank

LEMMA PublishKeeps ==
  ASSUME Good, SameLaunch, NEW t \in Running, Publish(t)
  PROVE  IndInv'
<1>0. /\ pc[t] = "publish" /\ pc' = [pc EXCEPT ![t] = "wait"] /\ pc'[t] = "wait"
      /\ part' = part /\ part[t][Junk] = 0 /\ stride = 0
      /\ t \in Thread
  BY Facts DEF Publish, Goto, Lane, Good, TypeOK
<1>1. /\ Lanewise' /\ Rows' /\ Others(t)
      /\ kernel \in {"kernel2", "kernel4"} /\ kernel' = kernel /\ stride' = stride
      /\ pass' = pass /\ \A u, k : Slot(u, k)' = Slot(u, k)
  BY <1>0, SharedStep
<1>2. Running = Thread
  BY <1>1, Facts
<1>3. CASE kernel = "kernel2"
  <2>1. /\ shared' = [shared EXCEPT ![t] = part[t]]
        /\ part[t] = Only(Own(B, t, C))
    BY <1>0, <1>3, Facts DEF Publish, Lane
  <2>2. \A u \in Thread : pc'[u] # "read"
    BY <1>0, <1>1, <1>2, <1>3, Readers DEF Others
  <2>3. \A u \in Thread : pc'[u] # "store"
    BY <1>0, <1>1, <1>2, Facts DEF Others
  <2>4. ASSUME NEW u \in Thread, pc'[u] = "wait" PROVE shared'[u] = Only(Own(B, u, C))
    <3>1. CASE u = t
      BY <1>0, <2>1, <3>1 DEF Good, TypeOK
    <3>2. CASE u # t
      BY <1>0, <1>1, <1>3, <2>1, <2>4, <3>2 DEF Others, Good, TypeOK, IndInv, Cells2
    <3>3. QED
      BY <3>1, <3>2
  <2>5. Cells2' /\ Cells4'
    BY <1>0, <1>1, <1>3, <2>2, <2>3, <2>4 DEF Cells2, Cells4
  <2>6. QED
    BY <1>1, <2>5 DEF IndInv
<1>4. CASE kernel = "kernel4"
  <2>1. /\ shared' = IF t % W = 0 THEN [shared EXCEPT ![Slot(t, t \div W)] = part[t]]
                     ELSE shared
        /\ t % W = 0 => part[t] = Only(Share(B, t \div W, 1, 0))
    BY <1>0, <1>4, Facts DEF Publish, Lane
  <2>2. /\ t \div W \in 0 .. (B \div W) - 1 /\ Slot(t, t \div W) \in Thread
        /\ B \div W \in Nat \ {0}
    <3>1. t \div W \in Warp
      BY <1>0, LaneOf
    <3>2. QED
      BY <3>1, SlotType, <1>0, Warps DEF Warp
  <2>3. ASSUME NEW u \in Thread, pc'[u] = "wait", u % W = 0
        PROVE  shared'[Slot(u, u \div W)] = Only(Share(B, u \div W, 1, 0))
    <3>1. CASE u = t
      BY <2>1, <2>2, <2>3, <3>1 DEF Good, TypeOK
    <3>2. CASE u # t
      <4>1. pc[u] = "wait"
        BY <1>1, <2>3, <3>2 DEF Others
      <4>2. shared[Slot(u, u \div W)] = Only(Share(B, u \div W, 1, 0))
        BY <1>0, <1>4, <2>3, <4>1 DEF Good, IndInv, Cells4
      <4>3. t % W = 0 => t \div W # u \div W
        BY <1>0, <2>3, <3>2, LaneOf
      <4>4. /\ \A k : Slot(t, k) = Slot(u, k)
            /\ u \div W \in 0 .. (B \div W) - 1
        BY <1>0, <1>2, <4>1, OneArray, LaneOf DEF Warp
      <4>5. t % W = 0 => Slot(u, u \div W) # Slot(t, t \div W)
        BY <2>2, <4>3, <4>4 DEF Slot
      <4>6. QED
        BY <2>1, <4>2, <4>5 DEF Good, TypeOK
    <3>3. QED
      BY <3>1, <3>2
  <2>4. ASSUME NEW u \in Thread, pc'[u] = "read"
        PROVE  shared'[Slot(u, 0)] = Whole
    <3>1. pc[u] = "read"
      BY <1>0, <1>1, <2>4 DEF Others
    <3>2. shared[Slot(u, 0)] = Whole
      BY <1>4, <3>1 DEF Good, IndInv, Cells4
    <3>3. pass[t] = "sum" /\ pass[u] = "max"
      BY <1>0, <1>1, <1>2, <3>1, Readers
    <3>4. Slot(u, 0) # Slot(t, t \div W)
      BY <1>4, <2>2, <3>3 DEF Slot
    <3>5. QED
      BY <2>1, <3>2, <3>4 DEF Good, TypeOK
  <2>5. Cells2' /\ Cells4'
    BY <1>0, <1>1, <1>4, <2>3, <2>4 DEF Cells2, Cells4
  <2>6. QED
    BY <1>1, <2>5 DEF IndInv
<1>5. QED
  BY <1>1, <1>3, <1>4

LEMMA SkipKeeps ==
  ASSUME Good, SameLaunch, NEW t \in Running, Skip(t)
  PROVE  IndInv'
<1>0. /\ pc[t] = "round" /\ pc' = [pc EXCEPT ![t] = "wait"] /\ pc'[t] = "wait"
      /\ t >= stride /\ stride > 0 /\ t \in Thread /\ t # 0
      /\ UNCHANGED <<part, shared, col>> /\ part[t][Junk] = 0
  BY Facts DEF Skip, Goto, Lane, Good, TypeOK
<1>1. /\ Lanewise' /\ Rows' /\ Others(t)
      /\ kernel \in {"kernel2", "kernel4"} /\ kernel' = kernel /\ stride' = stride
      /\ pass' = pass /\ \A u, k : Slot(u, k)' = Slot(u, k)
  BY <1>0, SharedStep
<1>2. \A u \in Thread : u # t => pc'[u] = pc[u]
  BY <1>1 DEF Others
<1>3. Cells2'
  <2> SUFFICES ASSUME kernel = "kernel2", NEW u \in Thread
               PROVE  /\ B % (2 * stride) = 0
                      /\ u < 2 * stride
                           => shared[u] = Only(Own(IF pc'[u] = "wait" /\ u < stride THEN stride
                                                   ELSE 2 * stride, u, C))
                      /\ pc'[u] = "store" => part[u] = Only(Own(stride, u, C))
                      /\ pc'[u] = "read" => shared[0] = Whole
    BY <1>0, <1>1 DEF Cells2
  <2>0. /\ B % (2 * stride) = 0
        /\ u < 2 * stride
             => shared[u] = Only(Own(IF pc[u] = "wait" /\ u < stride THEN stride
                                     ELSE 2 * stride, u, C))
        /\ pc[u] = "store" => part[u] = Only(Own(stride, u, C))
        /\ pc[u] = "read" => shared[0] = Whole
    BY <1>0 DEF Good, IndInv, Cells2
  <2>1. CASE u = t
    <3>1. ~(u < stride)
      BY <1>0, <2>1 DEF Good, TypeOK, Thread
    <3>2. QED
      BY <1>0, <2>0, <2>1, <3>1
  <2>2. CASE u # t
    BY <1>2, <2>0, <2>2
  <2>3. QED
    BY <2>1, <2>2
<1>4. Cells4'
  <2>1. 0 \in Thread
    BY Launch DEF Good, TypeOK
  <2>2. pc'[0] = pc[0]
    BY <1>0, <1>2, <2>1
  <2>3. \A u \in Thread : pc'[u] = "read" => pc[u] = "read"
    BY <1>0, <1>2
  <2>4. QED
    BY <1>0, <1>1, <2>2, <2>3 DEF Good, IndInv, Cells4
<1>5. QED
  BY <1>1, <1>3, <1>4 DEF IndInv

(* A cell and the one a stride away have the columns of half the stride.   *)
LEMMA FetchKeeps ==
  ASSUME Good, SameLaunch, NEW t \in Running, Fetch(t)
  PROVE  IndInv'
<1>0. /\ pc[t] = "round" /\ t < stride /\ stride > 0 /\ t \in Thread /\ t \in Nat
      /\ stride \in Nat
      /\ kernel \in {"kernel2", "kernel4"}
      /\ UNCHANGED <<kernel, stride, shared, pass>>
  BY Facts DEF Fetch, Good, TypeOK, Shape, Labels
<1>1. CASE kernel = "kernel2"
  <2>1. /\ part' = [part EXCEPT ![t] = Combine(pass[t], shared[t], shared[t + stride])]
        /\ pc' = [pc EXCEPT ![t] = "store"] /\ pc'[t] = "store"
    BY <1>0, <1>1 DEF Fetch, Goto, Good, TypeOK
  <2>2. t + stride \in Thread
    BY <1>0, <1>1 DEF Good, Shape, Thread
  <2>3. shared[t] = Only(Own(2 * stride, t, C))
    BY <1>0, <1>1 DEF Good, IndInv, Cells2
  <2>4. shared[t + stride] = Only(Own(2 * stride, t + stride, C))
    BY <1>0, <1>1, <2>2 DEF Good, IndInv, Cells2
  <2>5. Combine(pass[t], Only(Own(2 * stride, t, C)), Only(Own(2 * stride, t + stride, C)))
          = Only(Own(stride, t, C))
    <3>1. stride \in Nat \ {0} /\ t \in 0 .. stride - 1
      BY <1>0
    <3>2. QED
      BY ONLY <3>1, OwnHalves
  <2>6. part'[t] = Only(Own(stride, t, C))
    BY <1>0, <2>1, <2>3, <2>4, <2>5 DEF Good, TypeOK
  <2>7. part'[t][Junk] = 0
    BY <2>6, NoJunk, Columns
  <2>8. Lanewise' /\ Rows' /\ Others(t)
    BY <2>7, SharedStep
  <2>9. Cells2'
    <3> SUFFICES ASSUME NEW u \in Thread
                 PROVE  /\ B % (2 * stride) = 0
                        /\ u < 2 * stride
                             => shared[u] = Only(Own(IF pc'[u] = "wait" /\ u < stride THEN stride
                                                     ELSE 2 * stride, u, C))
                        /\ pc'[u] = "store" => part'[u] = Only(Own(stride, u, C))
                        /\ pc'[u] = "read" => shared[0] = Whole
      BY <1>0 DEF Cells2
    <3>1. CASE u = t
      BY <1>0, <1>1, <2>1, <2>6, <3>1 DEF Good, IndInv, Cells2
    <3>2. CASE u # t
      BY <1>0, <1>1, <2>8, <3>2 DEF Good, IndInv, Cells2, Others
    <3>3. QED
      BY <3>1, <3>2
  <2>10. Cells4'
    BY <1>0, <1>1 DEF Cells4
  <2>11. QED
    BY <2>8, <2>9, <2>10 DEF IndInv
<1>2. CASE kernel = "kernel4"
  <2>1. t = 0
    BY <1>0, <1>2 DEF Good, Shape
  <2> DEFINE c == col[0]
             n == B \div W
  <2>2. /\ c \in Nat /\ c < n /\ c \in Warp /\ 0 \in Warp
    BY <1>0, <1>2, <2>1, Facts, Warps DEF Good, Shape, Warp
  <2>3. /\ part' = [part EXCEPT ![0] = IF c = 0 THEN shared[Slot(0, 0)]
                                        ELSE Combine(pass[0], @, shared[Slot(0, c)])]
        /\ col' = [col EXCEPT ![0] = c + 1]
        /\ pc' = IF c + 1 < n THEN pc ELSE [pc EXCEPT ![0] = "store"]
    BY <1>2, <2>1 DEF Fetch, Goto, Advance
  <2>4. \A w \in Warp : shared[Slot(0, w)] = Only(Share(B, w, 1, 0))
    BY <1>0, <1>2, <2>1 DEF Good, IndInv, Cells4
  <2>5. c > 0 => part[0] = Only(Below(c))
    BY <1>0, <1>2, <2>1 DEF Good, IndInv, Cells4
  <2> HIDE DEF c, n
  <2>6. part'[0] = Only(Below(c + 1))
    <3>1. CASE c = 0
      <4>1. part'[0] = Only(Share(B, 0, 1, 0)) /\ c + 1 = 1
        BY <1>0, <2>1, <2>2, <2>3, <2>4, <3>1 DEF Good, TypeOK
      <4>2. QED
        BY <4>1, BelowStep
    <3>2. CASE c # 0
      <4>1. part'[0] = Combine(pass[0], Only(Below(c)), Only(Share(B, c, 1, 0)))
        BY <1>0, <2>1, <2>2, <2>3, <2>4, <2>5, <3>2 DEF Good, TypeOK
      <4>2. QED
        BY <2>2, <4>1, BelowStep
    <3>3. QED
      BY <3>1, <3>2
  <2>7. part'[t][Junk] = 0
    BY <2>1, <2>6, NoJunk, Columns
  <2>8. Lanewise' /\ Rows' /\ Others(t) /\ \A u, k : Slot(u, k)' = Slot(u, k)
    BY <2>7, SharedStep
  <2>9. /\ col'[0] = c + 1 /\ pc'[0] = IF c + 1 < n THEN "round" ELSE "store"
    BY <1>0, <2>1, <2>3 DEF Good, TypeOK
  <2>10. ~(c + 1 < n) => part'[0] = Whole
    <3>1. ~(c + 1 < n) => c + 1 = n
      BY <2>2, Warps DEF n
    <3>2. QED
      BY <2>6, <3>1, BelowStep DEF Whole, n
  <2>11. \A u \in Thread : pc'[u] = "read" => pc[u] = "read"
    BY <2>1, <2>8, <2>9 DEF Others
  <2>12. Cells4'
    <3>1. \A u \in Thread : pc'[u] = "read" => shared'[Slot(u, 0)'] = Whole
      BY <1>0, <1>2, <2>8, <2>11 DEF Good, IndInv, Cells4
    <3>2. \A w \in Warp : shared'[Slot(0, w)'] = Only(Share(B, w, 1, 0))
      BY <1>0, <2>4, <2>8
    <3>3. /\ pc'[0] # "wait"
          /\ pc'[0] = "round" /\ col'[0] > 0 => part'[0] = Only(Below(col'[0]))
          /\ pc'[0] = "store" => part'[0] = Whole
      BY <2>6, <2>9, <2>10
    <3>4. stride' > 0
      BY <1>0
    <3>5. QED
      BY <3>1, <3>2, <3>3, <3>4 DEF Cells4
  <2>13. Cells2'
    BY <1>0, <1>2 DEF Cells2
  <2>14. QED
    BY <2>8, <2>12, <2>13 DEF IndInv
<1>3. QED
  BY <1>0, <1>1, <1>2

(* It is written to a cell that nobody else uses in this round.            *)
LEMMA StoreKeeps ==
  ASSUME Good, SameLaunch, NEW t \in Running, Store(t)
  PROVE  IndInv'
<1>0. /\ pc[t] = "store" /\ pc' = [pc EXCEPT ![t] = "wait"] /\ pc'[t] = "wait"
      /\ t < stride /\ stride > 0 /\ t \in Thread /\ t \in Nat
      /\ shared' = [shared EXCEPT ![Slot(t, t)] = part[t]]
      /\ UNCHANGED <<part, col>> /\ part[t][Junk] = 0
  BY Facts DEF Store, Goto, Lane, Good, TypeOK, Shape
<1>1. /\ Lanewise' /\ Rows' /\ Others(t)
      /\ kernel \in {"kernel2", "kernel4"} /\ kernel' = kernel /\ stride' = stride
      /\ pass' = pass /\ \A u, k : Slot(u, k)' = Slot(u, k)
  BY <1>0, SharedStep
<1>2. \A u \in Thread : u # t => pc'[u] = pc[u]
  BY <1>1 DEF Others
<1>3. \A u \in Thread : pc'[u] # "read"
  BY <1>0, <1>1, Facts DEF Others
<1>4. CASE kernel = "kernel2"
  <2>1. Slot(t, t) = t
    BY <1>4 DEF Slot
  <2>2. /\ shared'[t] = Only(Own(stride, t, C))
        /\ \A u \in Thread : u # t => shared'[u] = shared[u]
    BY <1>0, <1>4, <2>1 DEF Good, TypeOK, IndInv, Cells2
  <2>3. Cells2'
    <3> SUFFICES ASSUME NEW u \in Thread
                 PROVE  /\ B % (2 * stride) = 0
                        /\ u < 2 * stride
                             => shared'[u] = Only(Own(IF pc'[u] = "wait" /\ u < stride THEN stride
                                                      ELSE 2 * stride, u, C))
                        /\ pc'[u] = "store" => part[u] = Only(Own(stride, u, C))
      BY <1>0, <1>1, <1>3 DEF Cells2
    <3>1. CASE u = t
      BY <1>0, <1>4, <2>2, <3>1 DEF Good, IndInv, Cells2
    <3>2. CASE u # t
      BY <1>0, <1>2, <1>4, <2>2, <3>2 DEF Good, IndInv, Cells2
    <3>3. QED
      BY <3>1, <3>2
  <2>4. QED
    BY <1>1, <1>4, <2>3 DEF IndInv, Cells4
<1>5. CASE kernel = "kernel4"
  <2>1. t = 0 /\ part[0] = Whole
    <3>1. stride <= 1 /\ stride \in Nat
      BY <1>5 DEF Good, TypeOK, Shape
    <3>2. t = 0
      BY <1>0, <3>1
    <3>3. QED
      BY <1>0, <1>5, <3>2 DEF Good, IndInv, Cells4
  <2>2. 0 \in Warp /\ Slot(0, 0) \in Thread
    BY <1>0, <2>1, SlotType, Warps DEF Warp
  <2>3. \A w \in Warp : w # 0 => Slot(0, w) # Slot(0, 0)
    BY Warps DEF Slot, Warp
  <2>4. \A w \in Warp : shared'[Slot(0, w)] = IF w = 0 THEN Whole
                                              ELSE Only(Share(B, w, 1, 0))
    BY <1>0, <1>5, <2>1, <2>2, <2>3 DEF Good, TypeOK, IndInv, Cells4
  <2>5. Cells4'
    <3>1. \A w \in Warp : shared'[Slot(0, w)'] = IF w = 0 /\ pc'[0] = "wait" THEN Whole
                                                  ELSE Only(Share(B, w, 1, 0))
      BY <1>0, <1>1, <2>1, <2>4
    <3>2. pc'[0] = "wait" /\ stride' > 0 /\ stride' # 0
      BY <1>0, <1>1, <2>1
    <3>3. QED
      BY <1>3, <3>1, <3>2 DEF Cells4
  <2>6. QED
    BY <1>1, <1>5, <2>5 DEF IndInv, Cells2
<1>6. QED
  BY <1>1, <1>4, <1>5

-----------------------------------------------------------------------------
(* The steps of a warp and of the block                                    *)

(* A shuffle joins the columns of two lanes, the last one leaves those of   *)
(* the warp to its first lane.                                             *)
LEMMA ShuffleKeeps ==
  ASSUME Fitting, Good, SameLaunch, NEW w \in Warp, Shuffle(w)
  PROVE  IndInv'
<1> DEFINE d == dist[w]
<1>0. /\ \A t \in Lanes(w) : /\ t \in Thread /\ t \in Nat /\ t \div W = w
                             /\ t % W \in 0 .. W - 1 /\ t = w * W + (t % W)
                             /\ pc[t] = "shuffle"
      /\ w * W \in Lanes(w) /\ (w * W) % W = 0
      /\ w * W \in Nat /\ w \in Nat
  <2>1. w * W + 0 \in Lanes(w) /\ (w * W + 0) % W = 0 /\ w * W + 0 = w * W
        /\ w \in Nat /\ w * W \in Nat
    BY LaneAt DEF Warp
  <2>2. \A t \in Lanes(w) : t \in Thread /\ t \div W = w /\ pc[t] = "shuffle"
    BY DEF Shuffle, Lanes
  <2>3. \A t \in Lanes(w) : t \in Nat /\ t % W \in 0 .. W - 1 /\ t = w * W + (t % W)
    BY <2>2, LaneOf
  <2>4. QED
    BY <2>1, <2>2, <2>3
<1>1. /\ kernel \in {"kernel3", "kernel4"} /\ Lanes(w) \subseteq Running
      /\ Dim \in 1 .. B /\ PowerOfTwo(W)
  <2>1. Lanes(w) \subseteq Running
    BY <1>0 DEF Good, Shape
  <2>2. kernel \in {"kernel3", "kernel4"} /\ Dim \in 1 .. B
    BY <1>0, <2>1, Facts DEF Good, Shape, Labels
  <2>3. PowerOfTwo(W)
    BY <2>2 DEF Good, TypeOK, Fitting
  <2>4. QED
    BY <2>1, <2>2, <2>3
<1>2. /\ \A t \in Thread : Lane(t)
      /\ W % Width(d) = 0 /\ d \in Nat /\ stride = 0
      /\ \A v \in Warp : W % Width(dist[v]) = 0
  <2>1. stride = 0
    BY <1>0, <1>1, Facts
  <2>2. QED
    BY <1>1, <2>1 DEF Good, IndInv, Lanewise, TypeOK
<1>3. /\ UNCHANGED <<kernel, pass, cell, shared, row, stride>>
      /\ \A t \in Thread : t \notin Lanes(w) <=> t \div W # w
  BY DEF Shuffle, Lanes
<1>4. CASE d > 0
  <2>1. /\ part' = [t \in Thread |->
                 IF t \in Lanes(w)
                   THEN Combine(pass[t], part[t], part[IF t + d \in Lanes(w) THEN t + d ELSE t])
                   ELSE part[t]]
        /\ dist' = [dist EXCEPT ![w] = d \div 2]
        /\ UNCHANGED <<pc, col, total>>
    BY <1>4 DEF Shuffle
  <2>2. /\ dist'[w] = d \div 2 /\ \A v \in Warp : v # w => dist'[v] = dist[v]
    BY <2>1 DEF Good, TypeOK
  <2>3. d \in Nat \ {0} /\ Width(d) = 2 * d /\ W % (2 * d) = 0
    BY <1>2, <1>4 DEF Width
  <2>4. Width(d \div 2) = d /\ W % d = 0
    BY <1>1, <2>3, Halving DEF Width
  <2>5. 2 * d <= W
    <3> DEFINE e == 2 * d
    <3>1. e \in Nat \ {0} /\ W % e = 0
      BY <2>3
    <3> HIDE DEF e
    <3>2. PICK q \in Nat : W = q * e
      BY <3>1, Quotient
    <3>3. q # 0
      BY <3>1, <3>2
    <3>4. 1 * e <= q * e
      BY <3>1, <3>3
    <3>5. QED
      BY <3>1, <3>2, <3>4 DEF e
  <2> HIDE DEF d
  <2>6. \A v \in Warp : W % Width(dist'[v]) = 0
    BY <1>2, <2>2, <2>4
  <2>7. ASSUME NEW t \in Thread, t \notin Lanes(w) PROVE Lane(t)'
    <3>1. part'[t] = part[t] /\ dist'[t \div W] = dist[t \div W]
      BY <1>3, <2>1, <2>2, <2>7, LaneOf
    <3>2. Lane(t)
      BY <1>2
    <3>3. QED
      BY <1>3, <2>1, <3>1, <3>2 DEF Lane, SameLaunch
  <2>8. ASSUME NEW t \in Lanes(w) PROVE part'[t][Junk] = 0
    <3> DEFINE u == IF t + d \in Lanes(w) THEN t + d ELSE t
    <3>1. t \in Thread /\ u \in Thread /\ part[t][Junk] = 0 /\ part[u][Junk] = 0
      BY <1>0, <1>2 DEF Lane
    <3>2. part'[t] = Combine(pass[t], part[t], part[u])
      BY <2>1, <3>1
    <3> HIDE DEF u
    <3>3. part[t] \in Value /\ part[u] \in Value
      BY <3>1 DEF Good, TypeOK
    <3>4. QED
      BY <3>1, <3>2, <3>3, StaysClean
  <2>9. ASSUME NEW t \in Lanes(w), t % W < d
        PROVE  part'[t] = Only(Share(Dim, w, d, t % W))
    <3> DEFINE l == t % W
    <3>0. l \in 0 .. W - 1 /\ t = w * W + l /\ l < d
      BY <1>0, <2>9
    <3>1. l + d \in 0 .. W - 1 /\ l < 2 * d /\ l + d < 2 * d
      BY <2>3, <2>5, <3>0
    <3> HIDE DEF l
    <3>2. w * W + (l + d) \in Lanes(w) /\ (w * W + (l + d)) % W = l + d
      BY <3>1, LaneAt
    <3>3. w * W + (l + d) = t + d
      BY <1>0, <2>3, <3>0
    <3>4. t + d \in Lanes(w) /\ (t + d) % W = l + d
      BY <3>2, <3>3
    <3>5. part'[t] = Combine(pass[t], part[t], part[t + d])
      BY <1>0, <2>1, <3>4
    <3>6. ASSUME NEW u \in Lanes(w), u % W < 2 * d
          PROVE  part[u] = Only(Share(Dim, w, 2 * d, u % W))
      <4>1. Lane(u) /\ pc[u] = "shuffle" /\ u \div W = w
        BY <1>0, <1>2
      <4>2. Width(dist[u \div W]) = 2 * d
        BY <2>3, <4>1 DEF d
      <4>3. QED
        BY <3>6, <4>1, <4>2 DEF Lane
    <3>7. part[t] = Only(Share(Dim, w, 2 * d, l))
      BY <3>1, <3>6 DEF l
    <3>8. part[t + d] = Only(Share(Dim, w, 2 * d, l + d))
      <4>1. (t + d) % W < 2 * d
        BY <3>1, <3>4
      <4>2. QED
        BY <3>4, <3>6, <4>1
    <3>9. Combine(pass[t], Only(Share(Dim, w, 2 * d, l)), Only(Share(Dim, w, 2 * d, l + d)))
            = Only(Share(Dim, w, d, l))
      <4>1. Dim \in Nat \ {0} /\ d \in Nat \ {0} /\ l \in 0 .. d - 1 /\ w \in Nat
        BY <1>0, <1>1, <2>3, <3>0
      <4>2. QED
        BY ONLY <4>1, ShareHalves
    <3>10. QED
      BY <3>5, <3>7, <3>8, <3>9 DEF l
  <2>10. ASSUME NEW t \in Lanes(w) PROVE Lane(t)'
    <3>1. t \in Thread /\ t \div W = w /\ pc'[t] = "shuffle" /\ Width(dist'[w]) = d
      BY <1>0, <2>1, <2>2, <2>4
    <3>2. QED
      BY <2>8, <2>9, <3>1 DEF Lane, SameLaunch
  <2>11. Lanewise'
    BY <2>6, <2>7, <2>10 DEF Lanewise
  <2>12. Rows'
    BY <1>3, <2>1 DEF Good, IndInv, Rows, Rank, Written, SameLaunch
  <2>13. Cells2' /\ Cells4'
    BY <1>1, <1>2, <1>3, <2>1 DEF Good, IndInv, Cells2, Cells4, Slot
  <2>14. QED
    BY <2>11, <2>12, <2>13 DEF IndInv
<1>5. CASE ~(d > 0)
  <2>1. /\ dist' = [dist EXCEPT ![w] = W \div 2] /\ part' = part
        /\ d = 0 /\ Width(d) = 1
    BY <1>2, <1>5 DEF Shuffle, Width
  <2>2. /\ dist'[w] = W \div 2 /\ \A v \in Warp : v # w => dist'[v] = dist[v]
    BY <2>1 DEF Good, TypeOK
  <2>3. \A v \in Warp : W % Width(dist'[v]) = 0
    <3>1. W % Width(W \div 2) = 0
      BY <1>1, FirstHalf DEF Width
    <3>2. QED
      BY <1>2, <2>2, <3>1
  <2>4. part[w * W] = Only(Share(Dim, w, 1, 0))
    <3>1. /\ Lane(w * W) /\ pc[w * W] = "shuffle" /\ (w * W) \div W = w /\ (w * W) % W = 0
      BY <1>0, <1>2
    <3>2. QED
      BY <2>1, <3>1 DEF Lane
  <2> HIDE DEF d
  <2>5. /\ \A t \in Lanes(w) : part[t][Junk] = 0
    BY <1>0, <1>2 DEF Lane
  <2>6. CASE kernel = "kernel3"
    <3>1. /\ total' = [t \in Thread |-> IF t \in Lanes(w) THEN part[w * W] ELSE total[t]]
          /\ col' = [t \in Thread |-> IF t \in Lanes(w) THEN t ELSE col[t]]
          /\ pc' = [t \in Thread |-> IF t \notin Lanes(w) THEN pc[t]
                                     ELSE IF pass[t] = "max" THEN "exp" ELSE "load"]
      BY <1>5, <2>6 DEF Shuffle, d
    <3>2. w = 0 /\ Dim = W /\ Running = Lanes(0)
      <4>1. Dim = W /\ Running = Lanes(0)
        BY <2>6, Launch DEF Good, TypeOK
      <4>2. QED
        BY <1>0, <1>1, <4>1 DEF Lanes
    <3>3. part[w * W] = Whole
      BY <2>4, <3>2, ShareOfWarp DEF Whole
    <3>4. ASSUME NEW t \in Lanes(w)
          PROVE  /\ t \in 0 .. W - 1 /\ t % W = t
                 /\ \A i \in Column : i % W = t => ~(i < t)
                 /\ pass[t] \in {"max", "sum"}
      <4>1. t \in Running
        BY <1>1
      <4>2. t \in 0 .. W - 1 /\ pass[t] \in {"max", "sum"}
        BY <3>2, <4>1, Facts
      <4>3. QED
        BY <4>2, FirstColumn
    <3>5. ASSUME NEW t \in Thread PROVE Lane(t)'
      <4>1. CASE t \in Lanes(w)
        <5>1. /\ pc'[t] = IF pass[t] = "max" THEN "exp" ELSE "load"
              /\ total'[t] = Whole /\ col'[t] = t /\ part'[t] = part[t]
              /\ dist'[t \div W] = W \div 2
          BY <1>0, <2>1, <2>2, <3>1, <3>3, <4>1
        <5>2. QED
          BY <2>5, <2>6, <3>2, <3>4, <4>1, <5>1 DEF Lane, SameLaunch
      <4>2. CASE t \notin Lanes(w)
        <5>1. /\ pc'[t] = pc[t] /\ col'[t] = col[t] /\ total'[t] = total[t]
              /\ dist'[t \div W] = dist[t \div W]
          BY <1>3, <2>2, <3>1, <4>2, LaneOf
        <5>2. Lane(t)
          BY <1>2
        <5>3. QED
          BY <1>3, <2>1, <5>1, <5>2 DEF Lane, SameLaunch
      <4>3. QED
        BY <4>1, <4>2
    <3>6. Lanewise'
      BY <2>3, <3>5 DEF Lanewise
    <3>7. ASSUME NEW i \in Column PROVE row'[i] = Written(i % Dim, i)'
      <4>1. i % W \in Lanes(w)
        <5>1. i \in Nat /\ i % W \in 0 .. W - 1
          BY Columns, Division
        <5>2. w * W + (i % W) \in Lanes(w) /\ w * W + (i % W) = i % W
          BY <3>2, <5>1, LaneAt
        <5>3. QED
          BY <5>2
      <4>2. row[i] = Written(i % W, i)
        BY <2>6, <3>2 DEF Good, IndInv, Rows
      <4>3. /\ pc[i % W] = "shuffle"
            /\ pc'[i % W] = IF pass[i % W] = "max" THEN "exp" ELSE "load"
            /\ col'[i % W] = i % W /\ pass' = pass
            /\ ~(i < i % W) /\ pass[i % W] \in {"max", "sum"}
        BY <1>0, <1>3, <3>1, <3>4, <4>1
      <4>4. row[i] = IF pass[i % W] = "max" THEN "none" ELSE "exp"
        BY <4>2, <4>3 DEF Written, Rank
      <4>5. (i % Dim)' = i % W
        BY <3>2 DEF SameLaunch
      <4>6. Written(i % Dim, i)' = IF pass[i % W] = "max" THEN "none" ELSE "exp"
        BY <4>3, <4>5 DEF Written, Rank
      <4>7. QED
        BY <1>3, <4>4, <4>6
    <3>8. Rows'
      BY <3>7 DEF Rows
    <3>9. Cells2' /\ Cells4'
      BY <1>3, <2>6 DEF Cells2, Cells4
    <3>10. QED
      BY <3>6, <3>8, <3>9 DEF IndInv
  <2>7. CASE kernel = "kernel4"
    <3>1. /\ pc' = [t \in Thread |-> IF t \in Lanes(w) THEN "publish" ELSE pc[t]]
          /\ UNCHANGED <<col, total>>
      BY <1>5, <2>7 DEF Shuffle, d
    <3>2. Dim = B
      BY <2>7, Launch DEF Good, TypeOK
    <3>3. ASSUME NEW t \in Lanes(w), t % W = 0 PROVE part[t] = Only(Share(B, w, 1, 0))
      <4>1. t = w * W
        BY <1>0, <3>3
      <4>2. QED
        BY <2>4, <3>2, <4>1
    <3>4. ASSUME NEW t \in Thread PROVE Lane(t)'
      <4>1. CASE t \in Lanes(w)
        <5>1. /\ pc'[t] = "publish" /\ part'[t] = part[t]
              /\ dist'[t \div W] = W \div 2 /\ t \div W = w
          BY <1>0, <2>1, <2>2, <3>1, <4>1
        <5>2. QED
          BY <2>5, <2>7, <3>3, <4>1, <5>1 DEF Lane, SameLaunch
      <4>2. CASE t \notin Lanes(w)
        <5>1. pc'[t] = pc[t] /\ dist'[t \div W] = dist[t \div W]
          BY <1>3, <2>2, <3>1, <4>2, LaneOf
        <5>2. Lane(t)
          BY <1>2
        <5>3. QED
          BY <1>3, <2>1, <3>1, <5>1, <5>2 DEF Lane, SameLaunch
      <4>3. QED
        BY <4>1, <4>2
    <3>5. Lanewise'
      BY <2>3, <3>4 DEF Lanewise
    <3>6. \A t \in Thread : \/ pc'[t] = pc[t]
                            \/ pc[t] = "shuffle" /\ pc'[t] = "publish"
      BY <1>0, <3>1
    <3>7. Rows'
      <4>1. 0 \in Thread /\ \A i \in Column : i % Dim \in Thread
        BY <3>2, Launch, ShareOfWarp DEF Good, TypeOK
      <4>2. Rank(0)' = Rank(0)
        BY <1>3, <3>6, <4>1 DEF Rank
      <4>3. ASSUME NEW i \in Column PROVE Written(i % Dim, i)' = Written(i % Dim, i)
        <5>1. /\ (i % Dim)' = i % Dim
              /\ \/ pc'[i % Dim] = pc[i % Dim]
                 \/ pc[i % Dim] = "shuffle" /\ pc'[i % Dim] = "publish"
              /\ pass' = pass /\ col' = col
          BY <1>3, <3>1, <3>6, <4>1 DEF SameLaunch
        <5>2. QED
          BY <5>1 DEF Written, Rank
      <4>4. QED
        BY <1>3, <4>2, <4>3 DEF Good, IndInv, Rows
    <3>8. Cells2' /\ Cells4'
      <4>1. \A t \in Thread : pc'[t] \in {"wait", "read", "store"} => pc'[t] = pc[t]
        BY <3>6
      <4>2. QED
        BY <1>2, <1>3, <2>7, <4>1 DEF Good, IndInv, Cells2, Cells4, Slot
    <3>9. QED
      BY <3>5, <3>7, <3>8 DEF IndInv
  <2>8. QED
    BY <1>1, <2>6, <2>7
<1>6. QED
  BY <1>4, <1>5

(* The last lane is in: the next round starts, or the result is there.     *)
LEMMA BarrierKeeps ==
  ASSUME Fitting, Good, SameLaunch, Barrier
  PROVE  IndInv'
<1>0. /\ Running = Thread /\ 0 \in Thread /\ kernel \in {"kernel2", "kernel4"}
      /\ \A t \in Thread : pc[t] = "wait" /\ Lane(t) /\ t \in Nat /\ t < B
      /\ stride \in Nat
  <2>1. 0 \in Running /\ pc[0] = "wait" /\ 0 \in Thread
    BY Launch DEF Barrier, Good, TypeOK
  <2>2. kernel \in {"kernel2", "kernel4"}
    BY <2>1, Facts DEF Good, Shape, Labels
  <2>3. Running = Thread
    BY <2>1, <2>2, Facts
  <2>4. \A t \in Thread : pc[t] = "wait" /\ t \in Nat /\ t < B
    BY <2>3, LaneOf DEF Barrier
  <2>5. \A t \in Thread : Lane(t)
    BY DEF Good, IndInv, Lanewise
  <2>6. stride \in Nat
    BY DEF Good, TypeOK
  <2>7. QED
    BY <2>1, <2>2, <2>3, <2>4, <2>5, <2>6
<1>1. /\ stride' = NextStride /\ stride' \in Nat
      /\ \A t \in Thread : pc'[t] = IF stride' = 0 THEN "read" ELSE "round"
      /\ \A t \in Thread : col'[t] = 0
      /\ UNCHANGED <<kernel, pass, part, total, cell, shared, row, dist>>
      /\ \A u, k : Slot(u, k)' = Slot(u, k)
  BY <1>0 DEF Barrier, NextStride, Slot
<1>2. Lanewise'
  <2>1. ASSUME NEW t \in Thread PROVE Lane(t)'
    <3>1. part[t][Junk] = 0 /\ dist[t \div W] = W \div 2
      BY <1>0 DEF Lane
    <3>2. QED
      BY <1>1, <3>1 DEF Lane
  <2>2. QED
    BY <1>1, <2>1 DEF Good, IndInv, Lanewise
<1>3. Rows'
  <2>1. Rank(0) # 3
    BY <1>0 DEF Rank
  <2>2. ASSUME NEW i \in Column PROVE row'[i] = Written(i % Dim, i)'
    <3>1. i % Dim \in Thread /\ (i % Dim)' = i % Dim
      BY <1>0, ShareOfWarp, Launch DEF SameLaunch, Good, TypeOK
    <3>2. row[i] = Written(i % Dim, i)
      BY <2>1 DEF Good, IndInv, Rows
    <3>3. pc[i % Dim] = "wait" /\ pc'[i % Dim] \in {"read", "round"} /\ pass' = pass
      BY <1>0, <1>1, <3>1
    <3>4. Written(i % Dim, i)' = Written(i % Dim, i)
      BY <3>1, <3>3 DEF Written, Rank
    <3>5. QED
      BY <1>1, <3>2, <3>4
  <2>3. QED
    BY <2>2 DEF Rows
<1>4. CASE kernel = "kernel2"
  <2>1. PowerOfTwo(B)
    BY <1>4 DEF Good, TypeOK, Fitting
  <2>2. CASE stride = 0
    <3>1. /\ B = 2 * (B \div 2) /\ B \div 2 \in Nat \ {0} /\ B % (2 * (B \div 2)) = 0
          /\ stride' = B \div 2
      BY <1>1, <1>4, <2>1, <2>2, FirstHalf, Warps DEF NextStride
    <3> DEFINE s == B \div 2
    <3>2. B = 2 * s /\ s \in Nat \ {0} /\ B % (2 * s) = 0 /\ stride' = s
      BY <3>1
    <3> HIDE DEF s
    <3>3. \A u \in Thread : shared[u] = Only(Own(2 * s, u, C))
      BY <1>0, <1>4, <2>2, <3>2 DEF Good, IndInv, Cells2
    <3>4. \A u \in Thread : pc'[u] = "round"
      BY <1>1, <3>2
    <3>5. Cells2' /\ Cells4'
      BY <1>1, <1>4, <3>2, <3>3, <3>4 DEF Cells2, Cells4
    <3>6. QED
      BY <1>2, <1>3, <3>5 DEF IndInv
  <2>3. CASE stride > 0
    <3>1. /\ stride \in Nat \ {0} /\ B % (2 * stride) = 0 /\ stride' = stride \div 2
          /\ \A u \in Thread : u < stride => shared[u] = Only(Own(stride, u, C))
      <4>1. \A u \in Thread : u < stride => u < 2 * stride
        BY <1>0
      <4>2. QED
        BY <1>0, <1>1, <1>4, <2>3, <4>1 DEF Good, IndInv, Cells2, NextStride
    <3>2. B \in Nat \ {0}
      OBVIOUS
    <3>3. CASE stride = 1
      <4>1. stride' = 0 /\ shared[0] = Whole
        BY <1>0, <3>1, <3>3, OwnWhole
      <4>2. \A u \in Thread : pc'[u] = "read"
        BY <1>1, <4>1
      <4>3. Cells2' /\ Cells4'
        BY <1>1, <1>4, <4>1, <4>2 DEF Cells2, Cells4
      <4>4. QED
        BY <1>2, <1>3, <4>3 DEF IndInv
    <3>4. CASE stride # 1
      <4> DEFINE s == stride \div 2
      <4>1. stride = 2 * s /\ s \in Nat \ {0} /\ B % (2 * s) = 0 /\ stride' = s
        BY <2>1, <3>1, <3>2, <3>4, Halving
      <4> HIDE DEF s
      <4>2. \A u \in Thread : u < 2 * s => shared[u] = Only(Own(2 * s, u, C))
        BY <3>1, <4>1
      <4>3. \A u \in Thread : pc'[u] = "round"
        BY <1>1, <4>1
      <4>4. Cells2' /\ Cells4'
        BY <1>1, <1>4, <4>1, <4>2, <4>3 DEF Cells2, Cells4
      <4>5. QED
        BY <1>2, <1>3, <4>4 DEF IndInv
    <3>5. QED
      BY <3>3, <3>4
  <2>4. QED
    BY <1>0, <2>2, <2>3
<1>5. CASE kernel = "kernel4"
  <2>1. CASE stride = 0
    <3>1. stride' = 1 /\ \A u \in Thread : pc'[u] = "round"
      BY <1>1, <1>5, <2>1 DEF NextStride
    <3>2. ASSUME NEW w \in Warp PROVE shared[Slot(0, w)] = Only(Share(B, w, 1, 0))
      <4>1. PICK t \in Thread : t % W = 0 /\ t \div W = w
        <5>1. 0 \in 0 .. W - 1
          OBVIOUS
        <5>2. QED
          BY <5>1, LaneAt
      <4>2. shared[Slot(t, w)] = Only(Share(B, w, 1, 0))
        BY <1>0, <1>5, <2>1, <4>1 DEF Good, IndInv, Cells4
      <4>3. Slot(t, w) = Slot(0, w)
        BY <1>0, <4>1, OneArray
      <4>4. QED
        BY <4>2, <4>3
    <3>3. Cells2' /\ Cells4'
      BY <1>0, <1>1, <1>5, <3>1, <3>2 DEF Cells2, Cells4
    <3>4. QED
      BY <1>2, <1>3, <3>3 DEF IndInv
  <2>2. CASE stride > 0
    <3>1. stride' = 0 /\ \A u \in Thread : pc'[u] = "read"
      <4>1. stride = 1
        BY <1>0, <1>5, <2>2 DEF Good, Shape
      <4>2. QED
        BY <1>1, <4>1 DEF NextStride
    <3>2. shared[Slot(0, 0)] = Whole
      <4>1. 0 \in Warp
        BY Warps DEF Warp
      <4>2. QED
        BY <1>0, <1>5, <2>2, <4>1 DEF Good, IndInv, Cells4
    <3>3. \A u \in Thread : shared[Slot(u, 0)] = Whole
      BY <1>0, <3>2, OneArray
    <3>4. Cells2' /\ Cells4'
      BY <1>1, <1>5, <3>1, <3>3 DEF Cells2, Cells4
    <3>5. QED
      BY <1>2, <1>3, <3>4 DEF IndInv
  <2>3. QED
    BY <1>0, <2>1, <2>2
<1>6. QED
  BY <1>0, <1>4, <1>5

(* kernel2 starts to sum up when every exponential is written.             *)
LEMMA SyncKeeps ==
  ASSUME Good, SameLaunch, Sync
  PROVE  IndInv'
<1>0. /\ Running = Thread /\ kernel = "kernel2" /\ stride = 0 /\ Dim = B
      /\ \A t \in Thread : pc[t] = "sync" /\ Lane(t) /\ pass[t] = "sum"
  <2>1. 0 \in Running /\ pc[0] = "sync" /\ 0 \in Thread
    BY Launch DEF Sync, Good, TypeOK
  <2>2. kernel = "kernel2"
    BY <2>1, Facts DEF Good, Shape, Labels
  <2>3. Running = Thread /\ stride = 0 /\ Dim = B
    BY <2>1, <2>2, Facts
  <2>4. QED
    BY <2>1, <2>2, <2>3, Facts DEF Sync, Good, Shape
<1>1. /\ \A t \in Thread : pc'[t] = "gather"
      /\ UNCHANGED <<kernel, pass, col, part, total, cell, shared, row, stride, dist>>
  BY DEF Sync
<1>2. Lanewise'
  <2>1. ASSUME NEW t \in Thread PROVE Lane(t)'
    BY <1>0, <1>1 DEF Lane, SameLaunch
  <2>2. QED
    BY <1>0, <1>1, <2>1 DEF Good, IndInv, Lanewise
<1>3. Rows'
  <2>1. ASSUME NEW i \in Column PROVE row'[i] = Written(i % Dim, i)'
    <3>1. i % Dim \in Thread /\ (i % Dim)' = i % Dim
      BY <1>0, ShareOfWarp DEF SameLaunch
    <3>2. row[i] = Written(i % Dim, i)
      BY <1>0 DEF Good, IndInv, Rows
    <3>3. /\ pc[i % Dim] = "sync" /\ pc'[i % Dim] = "gather" /\ pass'[i % Dim] = "sum"
      BY <1>0, <1>1, <3>1
    <3>4. Written(i % Dim, i)' = Written(i % Dim, i)
      BY <3>1, <3>3 DEF Written, Rank
    <3>5. QED
      BY <1>1, <3>2, <3>4
  <2>2. QED
    BY <2>1 DEF Rows
<1>4. Cells2' /\ Cells4'
  BY <1>0, <1>1 DEF Cells2, Cells4
<1>5. QED
  BY <1>2, <1>3, <1>4 DEF IndInv

-----------------------------------------------------------------------------
(* The induction                                                           *)

LEMMA ThreadKeeps ==
  ASSUME Fitting, Good, SameLaunch, NEW t \in Thread, Step(t)
  PROVE  IndInv'
<1>1. pc[t] # "done"
  BY DEF Step, Gather, Gathered, GatheredAlone, ExpAdd, ExpAdded, Publish, Skip, Fetch,
     Store, Read, Exp, ExpEnds, Load, Save, Finish
<1>2. t \in Running
  BY <1>1 DEF Good, Shape
<1>3. QED
  BY <1>2, GatherKeeps, GatheredKeeps, AloneKeeps, ExpKeeps, ExpEndsKeeps, ReadKeeps,
     DivideKeeps, PublishKeeps, SkipKeeps, FetchKeeps, StoreKeeps DEF Step

LEMMA IndInvStarts ==
  ASSUME Fitting, Init
  PROVE  IndInv
<1>0. kernel \in Kernels
  BY DEF Init
<1>1. ASSUME NEW t \in Thread PROVE Lane(t)
  <2>1. /\ part[t] = Only({}) /\ col[t] = t /\ t \in Nat
        /\ dist[t \div W] = W \div 2
        /\ pc[t] = IF t \in Running THEN "gather" ELSE "done"
    BY LaneOf DEF Init
  <2>2. part[t][Junk] = 0
    BY <2>1, NoJunk
  <2>3. ASSUME t \in Running PROVE t % Dim = t /\ Only(Own(Dim, t, t)) = Only({})
    <3>1. Dim \in Nat \ {0} /\ t \in 0 .. Dim - 1
      BY <1>0, <2>1, <2>3, Launch DEF Running
    <3>2. QED
      BY <3>1, OwnStart
  <2>4. QED
    BY <2>1, <2>2, <2>3 DEF Lane
<1>2. Lanewise
  <2>1. ASSUME kernel \in {"kernel3", "kernel4"}, NEW w \in Warp
        PROVE  W % Width(dist[w]) = 0
    <3>1. dist[w] = W \div 2 /\ PowerOfTwo(W)
      BY <1>0, <2>1 DEF Init, Fitting
    <3>2. QED
      BY <3>1, FirstHalf DEF Width
  <2>2. QED
    BY <1>1, <2>1 DEF Lanewise
<1>3. Rows
  <2>1. ASSUME NEW i \in Column PROVE row[i] = Written(i % Dim, i)
    <3>1. i % Dim \in Running
      <4>1. i \in Nat /\ Dim \in 1 .. B
        BY <1>0, Columns, Launch
      <4>2. i % Dim \in 0 .. Dim - 1
        BY <4>1, Division
      <4>3. QED
        BY <4>1, <4>2 DEF Running, Thread
    <3>2. pc[i % Dim] = "gather" /\ pass[i % Dim] = "max" /\ row[i] = "none"
      BY <3>1 DEF Init, Running
    <3>3. QED
      BY <3>2 DEF Written, Rank
  <2>2. QED
    BY <2>1 DEF Rows
<1>4. Cells2 /\ Cells4
  BY DEF Init, Cells2, Cells4
<1>5. QED
  BY <1>2, <1>3, <1>4 DEF IndInv

LEMMA GoodAlways ==
  ASSUME Fitting
  PROVE  Spec => []Good
<1>1. Init => IndInv
  BY IndInvStarts
<1>2. ASSUME TypeOK, Shape, InStep, IndInv, [Next]_vars
      PROVE  IndInv'
  <2>1. Good /\ SameLaunch
    BY <1>2, KernelStays DEF Good, SameLaunch
  <2>2. CASE UNCHANGED vars
    <3>1. \A t : Lane(t)' <=> Lane(t)
      BY <2>1, <2>2 DEF vars, Lane, SameLaunch
    <3>2. Lanewise'
      BY <1>2, <2>2, <3>1 DEF vars, Lanewise, IndInv
    <3>3. Rows'
      BY <1>2, <2>1, <2>2 DEF vars, Rows, IndInv, Written, Rank, SameLaunch
    <3>4. Cells2' /\ Cells4'
      BY <1>2, <2>2 DEF vars, Cells2, Cells4, IndInv, Slot
    <3>5. QED
      BY <3>2, <3>3, <3>4 DEF IndInv
  <2>3. QED
    BY <1>2, <2>1, <2>2, ThreadKeeps, ShuffleKeeps, BarrierKeeps, SyncKeeps DEF Next, Ended
<1>3. QED
  BY <1>1, <1>2, InStepAlways, PTL DEF Spec, Good

(* In every launch whose reductions fit, whatever the order the threads    *)
(* and the warps go in and however the row fits the block: a thread that    *)
(* uses its maximum or its sum has that of the whole row                   *)
(* (softmax.cu:59-72, 182-195).                                            *)
THEOREM SoftmaxTotalsAreWhole ==
  ASSUME Fitting
  PROVE  Spec => []TotalsAreWhole
<1>1. Good => TotalsAreWhole
  BY DEF Good, IndInv, Lanewise, Lane, TotalsAreWhole
<1>2. QED
  BY <1>1, GoodAlways, PTL

(* And what a thread adds up has been written by then, although kernel3    *)
(* and kernel4 have no barrier between the exponentials and their sum: a   *)
(* thread reads the columns that it wrote (softmax.cu:128-132, 188-192).   *)
THEOREM SoftmaxSumsReadExponentials ==
  ASSUME Fitting
  PROVE  Spec => []SumsReadExponentials
<1>1. Good => SumsReadExponentials
  BY DEF Good, IndInv, Lanewise, Lane, SumsReadExponentials
<1>2. QED
  BY <1>1, GoodAlways, PTL

(* When kernel1, kernel2 or kernel3 has ended, every element of the row is  *)
(* its exponential divided by the sum, once (softmax.cu:25-27, 86-88,       *)
(* 138-140).                                                               *)
THEOREM SoftmaxRowIsNormalised ==
  ASSUME Fitting
  PROVE  Spec => []RowIsNormalised
<1>1. ASSUME Good PROVE RowIsNormalised
  <2> SUFFICES ASSUME kernel # "kernel4", Done, NEW i \in Column
               PROVE  row[i] = "out"
    BY DEF RowIsNormalised, Correct
  <2>1. i % Dim \in Thread
    <3>1. i \in Nat /\ Dim \in 1 .. B
      BY <1>1, Columns, Launch DEF Good, TypeOK
    <3>2. i % Dim \in 0 .. Dim - 1
      BY <3>1, Division
    <3>3. QED
      BY <3>1, <3>2 DEF Thread
  <2>2. row[i] = Written(i % Dim, i)
    BY <1>1 DEF Good, IndInv, Rows
  <2>3. QED
    BY <2>1, <2>2 DEF Done, Written
<1>2. QED
  BY <1>1, GoodAlways, PTL

(* In kernel4 a thread divides when all have written their exponentials.    *)
Dividing ==
  kernel = "kernel4" /\ Rank(0) = 3 => \A i \in Column : row[i] # "none"

(* What a step does to an element: it writes an exponential where there is  *)
(* nothing, or divides one, or kernel4 divides again.                       *)
LEMMA RowStep ==
  ASSUME Good, Dividing, [Next]_vars, NEW i \in Column
  PROVE  \/ row'[i] = row[i]
         \/ row[i] = "none" /\ row'[i] = "exp"
         \/ row[i] = "exp" /\ row'[i] = "out"
         \/ kernel = "kernel4" /\ row[i] # "none" /\ row'[i] \in {"out", "bad"}
<1>1. ASSUME NEW t \in Thread, ExpAdd(t) \/ Exp(t)
      PROVE  row'[i] = row[i] \/ (row[i] = "none" /\ row'[i] = "exp")
  <2>1. pc[t] \in {"exp", "expadd"} /\ t \in Running
    BY <1>1 DEF ExpAdd, Exp, Good, Shape
  <2>2. /\ col[t] \in Column /\ col[t] % Dim = t /\ total[t] = Whole /\ col[t] \in Nat
    BY <1>1, <2>1, Facts DEF ExpAdd, Exp, Lane
  <2>3. row' = [row EXCEPT ![col[t]] = "exp"]
    BY <1>1, <2>2 DEF ExpAdd, Exp
  <2>4. ~(kernel = "kernel4" /\ Rank(0) = 3)
    <3>1. kernel = "kernel4" => Rank(t) = 1 /\ 0 \in Running
      BY <2>1, Launch DEF Rank, Good, TypeOK, Shape, Labels
    <3>2. QED
      BY <2>1, <3>1 DEF Good, InStep, Group
  <2>5. row[col[t]] = "none"
    BY <2>1, <2>2, <2>4 DEF Good, IndInv, Rows, Written
  <2>6. QED
    BY <2>2, <2>3, <2>5 DEF Good, TypeOK
<1>2. ASSUME NEW t \in Thread, Save(t), kernel = "kernel4"
      PROVE  row'[i] = row[i] \/ (row[i] # "none" /\ row'[i] \in {"out", "bad"})
  <2>1. pc[t] = "save" /\ t \in Running /\ 0 \in Running
    BY <1>2, Launch DEF Save, Good, TypeOK, Shape
  <2>2. Rank(0) = 3
    BY <2>1 DEF Good, InStep, Group, Rank
  <2>3. QED
    BY <1>2, <2>2 DEF Save, Dividing, Good, TypeOK
<1>3. ASSUME NEW t \in Thread, Save(t), kernel # "kernel4"
      PROVE  row'[i] = row[i] \/ (row[i] = "exp" /\ row'[i] = "out")
  <2>1. pc[t] = "save" /\ t \in Running
    BY <1>3 DEF Save, Good, Shape
  <2>2. /\ col[t] \in Column /\ col[t] % Dim = t /\ total[t] = Whole /\ cell[t] = "exp"
        /\ col[t] \in Nat
    BY <1>3, <2>1, Facts DEF Lane, Good, Shape
  <2>3. row[col[t]] = "exp"
    BY <1>3, <2>1, <2>2 DEF Good, IndInv, Rows, Written
  <2>4. row' = [row EXCEPT ![col[t]] = "out"]
    BY <1>3, <2>2 DEF Save
  <2>5. QED
    BY <2>2, <2>3, <2>4 DEF Good, TypeOK
<1>4. ASSUME NEW t \in Thread, Step(t)
      PROVE  row' = row \/ ExpAdd(t) \/ Exp(t) \/ Save(t)
  BY <1>4 DEF Step, Gather, Gathered, GatheredAlone, ExpAdded, Publish, Skip,
     Fetch, Store, Read, ExpEnds, Load, Finish
<1>5. ASSUME NEW w \in Warp, Shuffle(w)
      PROVE  row' = row
  BY <1>5 DEF Shuffle
<1>6. QED
  BY <1>1, <1>2, <1>3, <1>4, <1>5 DEF Next, Barrier, Sync, Ended, vars

(* kernel4 comes to the division at a barrier, from its second pass.        *)
LEMMA DividingStarts ==
  ASSUME Good, [Next]_vars, kernel = "kernel4", Rank(0) # 3, Rank(0)' = 3
  PROVE  row' = row /\ \A i \in Column : row[i] = "exp"
<1>0. /\ kernel' = kernel /\ Running = Thread /\ Dim = B /\ 0 \in Thread
      /\ pc \in [Thread -> Label] /\ pass \in [Thread -> {"max", "sum"}]
      /\ pc[0] \in Labels("kernel4")
  BY KernelStays, Launch DEF Good, TypeOK, Shape
<1>1. ~\E t \in Thread : Step(t)
  <2>1. ASSUME NEW t \in Thread, Step(t) PROVE Rank(0)' # 3
    <3>1. pc[t] # "expadd" /\ (kernel = "kernel1") = FALSE
      BY <1>0 DEF Good, Shape, Labels
    <3>2. QED
      BY <1>0, <2>1, <3>1 DEF Step, Gather, Gathered, GatheredAlone, ExpAdd, ExpAdded,
         Publish, Skip, Fetch, Store, Read, Exp, ExpEnds, AfterExp, Load, Save, Finish,
         Goto, Rank
  <2>2. QED
    BY <2>1
<1>2. ~\E w \in Warp : Shuffle(w)
  <2>1. ASSUME NEW w \in Warp, Shuffle(w) PROVE Rank(0)' # 3
    <3>1. /\ pc' = pc \/ pc' = [t \in Thread |-> IF t \in Lanes(w) THEN "publish" ELSE pc[t]]
          /\ pass' = pass
          /\ \A t \in Lanes(w) : pc[t] = "shuffle"
      BY <2>1 DEF Shuffle
    <3>2. QED
      BY <1>0, <3>1 DEF Rank
  <2>2. QED
    BY <2>1
<1>3. ~Sync /\ ~Ended /\ ~UNCHANGED vars
  BY <1>0 DEF Sync, Ended, vars, Rank, Labels
<1>4. Barrier
  BY <1>1, <1>2, <1>3 DEF Next
<1>5. /\ row' = row /\ \A t \in Thread : pc[t] = "wait"
      /\ pass[0] = "sum"
  BY <1>0, <1>4 DEF Barrier, Rank
<1>6. ASSUME NEW t \in Thread PROVE Rank(t) = 2
  BY <1>0, <1>5 DEF Good, InStep, Group, Rank
<1>7. ASSUME NEW i \in Column PROVE row[i] = "exp"
  <2>1. i % Dim \in Thread
    <3>1. i \in Nat /\ B \in Nat \ {0}
      BY Columns
    <3>2. QED
      BY <1>0, <3>1, Division DEF Thread
  <2>2. QED
    BY <1>5, <1>6, <2>1 DEF Good, IndInv, Rows, Written
<1>8. QED
  BY <1>5, <1>7

LEMMA DividingAlways ==
  ASSUME Fitting
  PROVE  Spec => [](Good /\ Dividing)
<1>1. Init => Dividing
  BY Launch DEF Init, Dividing, Rank, Running
<1>2. ASSUME Good, Dividing, [Next]_vars
      PROVE  Dividing'
  <2> SUFFICES ASSUME kernel = "kernel4", Rank(0)' = 3, NEW i \in Column
               PROVE  row'[i] # "none"
    BY <1>2, KernelStays DEF Dividing
  <2>1. CASE Rank(0) = 3
    <3>1. row[i] # "none"
      BY <1>2, <2>1 DEF Dividing
    <3>2. QED
      BY <1>2, <3>1, RowStep
  <2>2. CASE Rank(0) # 3
    BY <1>2, <2>2, DividingStarts
  <2>3. QED
    BY <2>1, <2>2
<1>3. QED
  BY <1>1, <1>2, GoodAlways, PTL DEF Spec

(* An element gets its exponential once, before any thread divides it, and  *)
(* all kernels but kernel4 divide it once (softmax.cu:125-140, 183-211).    *)
THEOREM SoftmaxRowMovesForward ==
  ASSUME Fitting
  PROVE  Spec => RowMovesForward
<1>1. ASSUME Good, Dividing, [Next]_vars
      PROVE  [\A i \in Column :
                \/ row'[i] = row[i]
                \/ row[i] = "none" /\ row'[i] = "exp"
                \/ row[i] = "exp" /\ row'[i] = "out"
                \/ kernel = "kernel4" /\ row[i] # "none" /\ row'[i] \in {"out", "bad"}]_vars
  BY <1>1, RowStep
<1>2. QED
  BY <1>1, DividingAlways, PTL DEF Spec, RowMovesForward

-----------------------------------------------------------------------------
(* Barriers and shuffles                                                   *)

Reducing(t) == pc[t] \in {"publish", "wait", "round", "store"}

(* In kernel4 the lanes of a warp leave its shuffles together.             *)
WarpsTogether ==
  kernel = "kernel4" =>
    \A t, u \in Thread : t \div W = u \div W => (Reducing(t) <=> Reducing(u))

LEMMA WarpsTogetherAlways == Spec => []WarpsTogether
<1>1. Init => WarpsTogether
  BY DEF Init, WarpsTogether, Reducing
<1>2. ASSUME TypeOK, WarpsTogether, [Next]_vars
      PROVE  WarpsTogether'
  <2> SUFFICES ASSUME kernel = "kernel4"
               PROVE  \A t, u \in Thread : t \div W = u \div W => (Reducing(t)' <=> Reducing(u)')
    BY <1>2, KernelStays DEF WarpsTogether
  <2>0. /\ pc \in [Thread -> Label]
        /\ \A t, u \in Thread : t \div W = u \div W => (Reducing(t) <=> Reducing(u))
    BY <1>2 DEF TypeOK, WarpsTogether
  <2>1. ASSUME NEW t \in Thread, Step(t)
        PROVE  \A u \in Thread : Reducing(u)' <=> Reducing(u)
    BY <2>0, <2>1 DEF Step, Gather, Gathered, GatheredAlone, ExpAdd, ExpAdded, Publish,
       Skip, Fetch, Store, Read, Exp, ExpEnds, AfterExp, Load, Save, Finish, Goto, Reducing
  <2>2. ASSUME NEW w \in Warp, Shuffle(w)
        PROVE  \/ pc' = pc
               \/ pc' = [t \in Thread |-> IF t \in Lanes(w) THEN "publish" ELSE pc[t]]
    BY <2>2 DEF Shuffle
  <2>3. ASSUME NEW w \in Warp, Shuffle(w), NEW t \in Thread, NEW u \in Thread,
               t \div W = u \div W
        PROVE  Reducing(t)' <=> Reducing(u)'
    BY <2>0, <2>2, <2>3 DEF Lanes, Reducing
  <2>4. CASE Barrier
    BY <2>4 DEF Barrier, Reducing
  <2>5. CASE Sync
    BY <2>5 DEF Sync, Reducing
  <2>6. CASE UNCHANGED vars
    BY <2>0, <2>6 DEF vars, Reducing
  <2>7. QED
    BY <1>2, <2>0, <2>1, <2>3, <2>4, <2>5, <2>6 DEF Next, Ended
<1>3. QED
  BY <1>1, <1>2, SoftmaxTypeCorrect, PTL DEF Spec

(* Some thread is not waiting, or all those that have to come to a barrier  *)
(* or to a shuffle are there.                                              *)
CanGoOn ==
  \/ Done
  \/ \E t \in Thread : pc[t] \in {"gather", "publish", "round", "store", "read", "exp",
                                  "expadd", "load", "save"}
  \/ \E w \in Warp : \A t \in Lanes(w) : pc[t] = "shuffle"
  \/ \A t \in Running : pc[t] = "wait"
  \/ \A t \in Running : pc[t] = "sync"

(* No block is ever stuck at a barrier or a shuffle, for every size of the  *)
(* row and of the block, also when some threads have no column: nobody is   *)
(* at a barrier, or out of the kernel, while another waits at the one       *)
(* before it (softmax.cu:48-83, 169-206).                                   *)
THEOREM SoftmaxNeverStuck == Spec => []CanGoOn
<1>1. ASSUME TypeOK, Shape, InStep, WarpsTogether
      PROVE  CanGoOn
  <2> SUFFICES ASSUME \A t \in Thread : pc[t] \in {"shuffle", "wait", "sync", "done"}, ~Done
               PROVE  CanGoOn
    BY <1>1 DEF CanGoOn, TypeOK, Label
  <2>1. PICK t \in Thread : pc[t] # "done"
    BY DEF Done
  <2>2. /\ t \in Running /\ Running \subseteq Thread
        /\ \A u \in Running : Group(u) = Group(t)
        /\ \A u \in Running : pc[u] \in Labels(kernel) /\ pass[u] \in {"max", "sum"}
        /\ kernel \in {"kernel1", "kernel2", "kernel3", "kernel4"}
        /\ pc[t] \in Labels(kernel)
    BY <1>1, <2>1, Launch DEF Shape, InStep, TypeOK, Running
  <2>3. CASE kernel = "kernel1"
    BY <2>1, <2>2, <2>3 DEF Labels
  <2>4. CASE kernel = "kernel2"
    <3>1. \A u \in Running : pc[u] \in {"wait", "sync", "done"}
      BY <2>2, <2>4 DEF Labels
    <3>2. \A u \in Running : pc[u] = pc[t]
      BY <2>1, <2>2, <2>4, <3>1 DEF Group, Rank
    <3>3. QED
      BY <2>1, <2>2, <3>1, <3>2 DEF CanGoOn
  <2>5. CASE kernel = "kernel3"
    <3>1. \A u \in Running : pc[u] \in {"shuffle", "done"}
      BY <2>2, <2>5 DEF Labels
    <3>2. \A u \in Running : pc[u] = "shuffle"
      BY <2>1, <2>2, <2>5, <3>1 DEF Group, Rank
    <3>3. Running = Lanes(0) /\ 0 \in Warp
      BY <1>1, <2>5, Launch DEF TypeOK
    <3>4. QED
      BY <3>2, <3>3 DEF CanGoOn
  <2>6. CASE kernel = "kernel4"
    <3>1. \A u \in Thread : pc[u] \in {"shuffle", "wait"} /\ Running = Thread
      <4>1. Running = Thread
        BY <1>1, <2>6, Launch DEF TypeOK
      <4>2. \A u \in Thread : pc[u] \in {"shuffle", "wait", "done"}
        BY <2>2, <2>6, <4>1 DEF Labels
      <4>3. QED
        BY <2>1, <2>2, <2>6, <4>1, <4>2 DEF Group, Rank
    <3>2. CASE \A u \in Thread : pc[u] = "wait"
      BY <3>1, <3>2 DEF CanGoOn
    <3>3. CASE \E u \in Thread : pc[u] = "shuffle"
      <4>1. PICK u \in Thread : pc[u] = "shuffle"
        BY <3>3
      <4>2. u \div W \in Warp
        BY LaneOf
      <4>3. \A v \in Lanes(u \div W) : pc[v] = "shuffle"
        BY <1>1, <2>6, <3>1, <4>1 DEF WarpsTogether, Reducing, Lanes
      <4>4. QED
        BY <4>2, <4>3 DEF CanGoOn
    <3>4. QED
      BY <3>1, <3>2, <3>3
  <2>7. QED
    BY <2>2, <2>3, <2>4, <2>5, <2>6
<1>2. QED
  BY <1>1, InStepAlways, WarpsTogetherAlways, PTL

-----------------------------------------------------------------------------
(* How many steps are left                                                 *)

N == B + C

Remaining(n, k) == IF k < n THEN n - k ELSE 0

(* At most so many steps of thread t, or of the block or the warp with it,  *)
(* once it has read the total of its pass: in the first pass there is more  *)
(* to come than in the second.                                             *)
LeftAfter(t) == IF pass[t] = "max" THEN 4 * N + 4 * B + 17 ELSE 2 * N + 3

(* In all: a round costs a few steps, and the rounds at least halve.        *)
Left(t) ==
  CASE pc[t] = "gather" -> LeftAfter(t) + 4 * B + 11 + Remaining(N, col[t])
    [] pc[t] = "shuffle" -> LeftAfter(t) + 3 * B + 10 + dist[t \div W]
    [] pc[t] = "publish" -> LeftAfter(t) + 3 * B + 9
    [] pc[t] = "wait" -> LeftAfter(t) + (IF stride = 0 THEN 3 * B + 8 ELSE 4 * stride + 1)
    [] pc[t] = "round" -> LeftAfter(t) + 4 * stride + 3
                          + (IF kernel = "kernel4" THEN Remaining(B, col[t]) ELSE 0)
    [] pc[t] = "store" -> LeftAfter(t) + 4 * stride + 2
    [] pc[t] = "read" -> LeftAfter(t)
    [] pc[t] = "exp" -> 3 * N + 4 * B + 16 + Remaining(N, col[t])
    [] pc[t] = "sync" -> 3 * N + 4 * B + 15
    [] pc[t] = "expadd" -> 2 * N + 4 + Remaining(N, col[t])
    [] pc[t] = "load" -> 2 * Remaining(N, col[t]) + 2
    [] pc[t] = "save" -> 2 * Remaining(N, col[t]) + 1
    [] OTHER -> 0

(* Every step leaves fewer steps to some threads and to none of them more.  *)
StepsRunOut ==
  [][/\ \A t \in Thread : Left(t) \in Nat /\ Left(t)' \in Nat /\ Left(t)' <= Left(t)
     /\ \E t \in Thread : Left(t)' < Left(t)]_vars

LEMMA LeftType ==
  ASSUME TypeOK
  PROVE  \A t \in Thread : Left(t) \in Nat
<1> SUFFICES ASSUME NEW t \in Thread PROVE Left(t) \in Nat
  OBVIOUS
<1>1. /\ B \in Nat /\ N \in Nat /\ LeftAfter(t) \in Nat /\ col[t] \in Nat /\ stride \in Nat
  BY DEF TypeOK, N, LeftAfter
<1>2. Remaining(N, col[t]) \in Nat /\ Remaining(B, col[t]) \in Nat
  BY <1>1 DEF Remaining
<1>3. dist[t \div W] \in Nat
  BY LaneOf DEF TypeOK
<1>4. QED
  BY <1>1, <1>2, <1>3 DEF Left

(* A thread that goes on alone: what it leaves behind, ...                 *)
LEMMA ThreadMoves ==
  ASSUME TypeOK, Shape, InStep, SameLaunch, NEW t \in Thread, Step(t)
  PROVE  /\ UNCHANGED <<stride, dist>>
         /\ \A u \in Thread \ {t} : pc'[u] = pc[u] /\ pass'[u] = pass[u] /\ col'[u] = col[u]
         /\ \/ /\ pc[t] \in {"gather", "exp", "expadd"} /\ pc'[t] = pc[t] /\ pass'[t] = pass[t]
               /\ col[t] < C /\ col'[t] > col[t]
            \/ pc[t] = "gather" /\ pc'[t] \in {"publish", "shuffle"} /\ pass'[t] = pass[t]
            \/ pc[t] = "gather" /\ pass[t] = "max" /\ pc'[t] = "expadd"
            \/ pc[t] = "expadd" /\ pc'[t] = "load"
            \/ pc[t] = "publish" /\ pc'[t] = "wait" /\ pass'[t] = pass[t] /\ stride = 0
            \/ pc[t] = "round" /\ pc'[t] \in {"wait", "store"} /\ pass'[t] = pass[t] /\ stride > 0
            \/ /\ pc[t] = "round" /\ pc'[t] = "round" /\ pass'[t] = pass[t]
               /\ kernel = "kernel4" /\ col[t] < B /\ col'[t] = col[t] + 1
            \/ pc[t] = "store" /\ pc'[t] = "wait" /\ pass'[t] = pass[t] /\ stride > 0
            \/ pc[t] = "read" /\ pass[t] = "max" /\ pc'[t] = "exp"
            \/ pc[t] = "read" /\ pass[t] # "max" /\ pc'[t] = "load"
            \/ pc[t] = "exp" /\ pc'[t] \in {"sync", "gather"} /\ pass'[t] = "sum"
            \/ pc[t] = "load" /\ pc'[t] = "save" /\ col'[t] = col[t] /\ col[t] < C
            \/ pc[t] = "save" /\ pc'[t] = "load" /\ col[t] < C /\ col'[t] > col[t]
            \/ pc[t] = "load" /\ pc'[t] = "done"
<1>0. /\ pc \in [Thread -> Label] /\ pass \in [Thread -> {"max", "sum"}]
      /\ col \in [Thread -> 0 .. B + C] /\ col[t] \in Nat
      /\ Dim \in Nat \ {0}
      /\ kernel \in {"kernel1", "kernel2", "kernel3", "kernel4"}
      /\ pc[t] \in Labels(kernel) /\ t \in Running
      /\ IF stride > 0 THEN pc[t] \in {"round", "store", "wait"}
                       ELSE pc[t] \notin {"round", "store"}
      /\ stride \in Nat
  <2>1. pc[t] # "done"
    BY DEF Step, Gather, Gathered, GatheredAlone, ExpAdd, ExpAdded, Publish, Skip, Fetch,
       Store, Read, Exp, ExpEnds, Load, Save, Finish
  <2>2. t \in Running /\ pc[t] \in Labels(kernel)
    BY <2>1 DEF Shape
  <2>3. Dim \in 1 .. B
    BY Launch DEF TypeOK
  <2>4. QED
    BY <2>2, <2>3 DEF TypeOK, InStep
<1>1. UNCHANGED <<stride, dist>>
  BY DEF Step, Gather, Gathered, GatheredAlone, ExpAdd, ExpAdded, Publish, Skip, Fetch,
     Store, Read, Exp, ExpEnds, Load, Save, Finish
<1>2. \A u \in Thread \ {t} : pc'[u] = pc[u] /\ pass'[u] = pass[u] /\ col'[u] = col[u]
  BY <1>0 DEF Step, Gather, Gathered, GatheredAlone, ExpAdd, ExpAdded, Publish, Skip, Fetch,
     Store, Read, Exp, ExpEnds, Load, Save, Finish, Goto, Advance
<1>3. CASE Gather(t) \/ ExpAdd(t) \/ Exp(t)
  BY <1>0, <1>1, <1>2, <1>3 DEF Gather, ExpAdd, Exp, Advance
<1>4. CASE Gathered(t) \/ ExpAdded(t)
  BY <1>0, <1>1, <1>2, <1>4 DEF Gathered, ExpAdded, Goto
<1>5. CASE GatheredAlone(t)
  <2>1. pass[t] = "max"
    BY <1>5 DEF GatheredAlone, Shape
  <2>2. QED
    BY <1>0, <1>1, <1>2, <1>5, <2>1 DEF GatheredAlone, Goto
<1>6. CASE Publish(t) \/ Skip(t) \/ Store(t)
  BY <1>0, <1>1, <1>2, <1>6 DEF Publish, Skip, Store, Goto
<1>7. CASE Fetch(t)
  <2>1. pc[t] = "round" /\ stride > 0 /\ pass'[t] = pass[t]
    BY <1>0, <1>7 DEF Fetch
  <2>2. CASE pc'[t] = "store"
    BY <1>1, <1>2, <2>1, <2>2
  <2>3. CASE pc'[t] # "store"
    <3>1. kernel # "kernel2"
      BY <1>0, <1>7, <2>3 DEF Fetch, Goto
    <3>2. kernel = "kernel4"
      BY <1>0, <2>1, <3>1 DEF Labels
    <3>3. pc'[t] = "round" /\ col'[t] = col[t] + 1
      BY <1>0, <1>7, <2>1, <2>3, <3>1 DEF Fetch, Goto, Advance
    <3>4. col[t] < B
      BY <1>0, <2>1, <3>2, Warps DEF Shape
    <3>5. QED
      BY <1>1, <1>2, <2>1, <3>2, <3>3, <3>4
  <2>4. QED
    BY <2>2, <2>3
<1>8. CASE Read(t)
  BY <1>0, <1>1, <1>2, <1>8 DEF Read, Goto
<1>9. CASE ExpEnds(t)
  BY <1>0, <1>1, <1>2, <1>9 DEF ExpEnds, AfterExp, Goto
<1>10. CASE Load(t) \/ Finish(t)
  BY <1>0, <1>1, <1>2, <1>10 DEF Load, Finish, Goto
<1>11. CASE Save(t)
  <2>1. col[t] < C
    BY <1>11 DEF Save, Shape
  <2>2. SaveStep \in Nat \ {0}
    BY <1>0 DEF SaveStep
  <2>3. QED
    BY <1>0, <1>1, <1>2, <1>11, <2>1, <2>2 DEF Save, Goto, Advance
<1>12. QED
  BY <1>3, <1>4, <1>5, <1>6, <1>7, <1>8, <1>9, <1>10, <1>11 DEF Step

(* ... which is less than before.                                          *)
LEMMA ThreadLeft ==
  ASSUME TypeOK, TypeOK', Shape, InStep, SameLaunch, NEW t \in Thread, Step(t)
  PROVE  Left(t)' < Left(t) /\ \A u \in Thread \ {t} : Left(u)' = Left(u)
<1>0. /\ B \in Nat \ {0} /\ C \in Nat /\ N = B + C /\ N' = N
      /\ col[t] \in Nat /\ col'[t] \in 0 .. N /\ col'[t] \in Nat
      /\ stride \in 0 .. B - 1 /\ pass[t] \in {"max", "sum"} /\ pass'[t] \in {"max", "sum"}
      /\ dist[t \div W] \in 0 .. B
      /\ kernel' = kernel
  <2>1. col'[t] \in 0 .. B + C /\ pass'[t] \in {"max", "sum"}
    BY DEF TypeOK
  <2>2. dist[t \div W] \in 0 .. W
    BY LaneOf DEF TypeOK
  <2>3. QED
    BY <2>1, <2>2 DEF TypeOK, N, SameLaunch
<1>1. /\ UNCHANGED <<stride, dist>>
      /\ \A u \in Thread \ {t} : pc'[u] = pc[u] /\ pass'[u] = pass[u] /\ col'[u] = col[u]
  BY ThreadMoves
<1>2. \A u \in Thread \ {t} : Left(u)' = Left(u)
  BY <1>0, <1>1 DEF Left, LeftAfter, Remaining
<1> DEFINE n == Remaining(N, col[t])
           m == Remaining(N, col'[t])
<1>3. /\ n \in 0 .. N /\ m \in 0 .. N
      /\ col[t] < C /\ col'[t] > col[t] => m < n
      /\ col'[t] = col[t] => m = n
      /\ col[t] < B => Remaining(B, col[t] + 1) < Remaining(B, col[t])
      /\ Remaining(B, col[t]) \in Nat /\ Remaining(B, col'[t]) \in Nat
  BY <1>0 DEF Remaining
<1>4. /\ m = Remaining(N, col[t])'
      /\ Remaining(B, col[t])' = Remaining(B, col'[t])
  BY <1>0 DEF Remaining
<1>5. /\ LeftAfter(t) \in Nat /\ LeftAfter(t) >= 2 * N + 3
      /\ pass[t] = "max" => LeftAfter(t) = 4 * N + 4 * B + 17
      /\ pass'[t] = pass[t] => LeftAfter(t)' = LeftAfter(t)
      /\ pass'[t] = "sum" => LeftAfter(t)' = 2 * N + 3
  BY <1>0 DEF LeftAfter
<1> HIDE DEF n, m
<1>6. CASE /\ pc[t] \in {"gather", "exp", "expadd"} /\ pc'[t] = pc[t] /\ pass'[t] = pass[t]
           /\ col[t] < C /\ col'[t] > col[t]
  BY <1>0, <1>2, <1>3, <1>4, <1>5, <1>6 DEF Left, n
<1>7. CASE pc[t] = "gather" /\ pc'[t] \in {"publish", "shuffle"} /\ pass'[t] = pass[t]
  BY <1>0, <1>1, <1>2, <1>3, <1>5, <1>7 DEF Left, n
<1>8. CASE \/ pc[t] = "gather" /\ pass[t] = "max" /\ pc'[t] = "expadd"
           \/ pc[t] = "expadd" /\ pc'[t] = "load"
           \/ pc[t] = "read" /\ pass[t] = "max" /\ pc'[t] = "exp"
           \/ pc[t] = "read" /\ pass[t] # "max" /\ pc'[t] = "load"
           \/ pc[t] = "exp" /\ pc'[t] \in {"sync", "gather"} /\ pass'[t] = "sum"
  BY <1>0, <1>2, <1>3, <1>4, <1>5, <1>8 DEF Left, n
<1>9. CASE \/ pc[t] = "publish" /\ pc'[t] = "wait" /\ pass'[t] = pass[t] /\ stride = 0
           \/ pc[t] = "round" /\ pc'[t] \in {"wait", "store"} /\ pass'[t] = pass[t] /\ stride > 0
           \/ pc[t] = "store" /\ pc'[t] = "wait" /\ pass'[t] = pass[t] /\ stride > 0
  BY <1>0, <1>1, <1>2, <1>3, <1>5, <1>9 DEF Left
<1>10. CASE /\ pc[t] = "round" /\ pc'[t] = "round" /\ pass'[t] = pass[t]
            /\ kernel = "kernel4" /\ col[t] < B /\ col'[t] = col[t] + 1
  BY <1>0, <1>1, <1>2, <1>3, <1>4, <1>5, <1>10 DEF Left
<1>11. CASE \/ pc[t] = "load" /\ pc'[t] = "save" /\ col'[t] = col[t] /\ col[t] < C
            \/ pc[t] = "save" /\ pc'[t] = "load" /\ col[t] < C /\ col'[t] > col[t]
            \/ pc[t] = "load" /\ pc'[t] = "done"
  BY <1>0, <1>2, <1>3, <1>4, <1>11 DEF Left, n
<1>12. QED
  BY <1>6, <1>7, <1>8, <1>9, <1>10, <1>11, ThreadMoves

(* A warp that shuffles.                                                   *)
LEMMA WarpLeft ==
  ASSUME TypeOK, TypeOK', SameLaunch, NEW w \in Warp, Shuffle(w)
  PROVE  \A t \in Thread : IF t \in Lanes(w) THEN Left(t)' < Left(t) ELSE Left(t)' = Left(t)
<1>1. /\ \A t \in Lanes(w) : pc[t] = "shuffle" /\ t \in Thread /\ t \div W = w
      /\ UNCHANGED <<pass, stride>>
      /\ \A v \in Warp : v # w => dist'[v] = dist[v]
      /\ \A t \in Thread : t \notin Lanes(w) => pc'[t] = pc[t] /\ col'[t] = col[t]
      /\ \/ pc' = pc /\ dist'[w] < dist[w] /\ dist'[w] \in Nat
         \/ \A t \in Lanes(w) : pc'[t] = "publish"
         \/ \A t \in Lanes(w) : pc'[t] = IF pass[t] = "max" THEN "exp" ELSE "load"
  BY DEF Shuffle, TypeOK, Lanes
<1>2. /\ B \in Nat \ {0} /\ C \in Nat /\ N = B + C /\ N' = N /\ kernel' = kernel
      /\ dist[w] \in Nat
  BY DEF TypeOK, N, SameLaunch
<1>3. ASSUME NEW t \in Thread, t \notin Lanes(w)
      PROVE  Left(t)' = Left(t)
  <2>1. /\ pc'[t] = pc[t] /\ col'[t] = col[t] /\ pass' = pass /\ stride' = stride
        /\ dist'[t \div W] = dist[t \div W]
    BY <1>1, <1>3, LaneOf DEF Lanes
  <2>2. QED
    BY <1>2, <2>1 DEF Left, LeftAfter, Remaining
<1>4. ASSUME NEW t \in Thread, t \in Lanes(w)
      PROVE  Left(t)' < Left(t)
  <2>1. /\ pc[t] = "shuffle" /\ t \div W = w /\ pass'[t] = pass[t]
        /\ \/ pc'[t] = "shuffle" /\ dist'[w] < dist[w] /\ dist'[w] \in Nat
           \/ pc'[t] = "publish"
           \/ pc'[t] = IF pass[t] = "max" THEN "exp" ELSE "load"
    BY <1>1, <1>4
  <2>2. col'[t] \in 0 .. B + C
    BY DEF TypeOK
  <2>3. Remaining(N, col[t])' \in 0 .. N
    BY <1>2, <2>2 DEF Remaining
  <2>4. /\ LeftAfter(t) \in Nat /\ LeftAfter(t)' = LeftAfter(t) /\ LeftAfter(t) >= 2 * N + 3
        /\ pass[t] = "max" => LeftAfter(t) = 4 * N + 4 * B + 17
    BY <1>2, <2>1 DEF LeftAfter
  <2>5. QED
    BY <1>2, <2>1, <2>3, <2>4 DEF Left
<1>5. QED
  BY <1>3, <1>4

(* A block at a barrier.                                                   *)
LEMMA BlockLeft ==
  ASSUME TypeOK, TypeOK', Shape, InStep, SameLaunch, Barrier \/ Sync
  PROVE  /\ \A t \in Running : Left(t)' < Left(t)
         /\ \A t \in Thread : t \in Running
<1>0. /\ 0 \in Running /\ pc[0] \in {"wait", "sync"} /\ 0 \in Thread
      /\ kernel \in {"kernel1", "kernel2", "kernel3", "kernel4"} /\ pc[0] \in Labels(kernel)
  BY Launch DEF Barrier, Sync, TypeOK, Shape
<1>1. kernel \in {"kernel2", "kernel4"} /\ Running = Thread
  <2>1. kernel \in {"kernel2", "kernel4"}
    BY <1>0 DEF Labels
  <2>2. QED
    BY <2>1, Launch DEF TypeOK
<1>2. /\ B \in Nat \ {0} /\ C \in Nat /\ N = B + C /\ N' = N /\ kernel' = kernel
      /\ stride \in Nat /\ stride' \in Nat /\ B >= 2
  <2>1. stride' \in 0 .. B - 1
    BY DEF TypeOK
  <2>2. QED
    BY <2>1, Warps DEF TypeOK, N, SameLaunch
<1>3. CASE Barrier
  <2>1. /\ \A t \in Thread : /\ pc[t] = "wait" /\ col'[t] = 0 /\ pass' = pass
                             /\ pc'[t] = IF stride' = 0 THEN "read" ELSE "round"
        /\ stride' = NextStride
    BY <1>1, <1>3 DEF Barrier
  <2>2. /\ stride = 0 => 4 * stride' <= 2 * B + 4
        /\ stride > 0 => stride' < stride
    BY <1>2, <2>1 DEF NextStride
  <2>3. kernel = "kernel4" /\ stride > 0 => stride' = 0
    <3>1. kernel = "kernel4" => stride <= 1
      BY DEF Shape
    <3>2. QED
      BY <1>2, <2>2, <3>1
  <2>4. ASSUME NEW t \in Thread PROVE Left(t)' < Left(t)
    <3>1. LeftAfter(t) \in Nat /\ LeftAfter(t)' = LeftAfter(t)
      BY <1>2, <2>1 DEF LeftAfter
    <3>2. Remaining(B, col[t])' = B
      BY <1>2, <2>1 DEF Remaining
    <3>3. CASE stride' = 0
      BY <1>2, <2>1, <3>1, <3>3 DEF Left
    <3>4. CASE stride' # 0
      BY <1>2, <2>1, <2>2, <2>3, <3>1, <3>2, <3>4 DEF Left
    <3>5. QED
      BY <3>3, <3>4
  <2>5. QED
    BY <1>1, <2>4
<1>4. CASE Sync
  <2>1. ASSUME NEW t \in Thread PROVE Left(t)' < Left(t)
    <3>1. pc[t] = "sync" /\ pc'[t] = "gather" /\ pass'[t] = pass[t] /\ col'[t] = col[t]
      BY <1>1, <1>4 DEF Sync
    <3>2. pass[t] = "sum"
      BY <1>1, <3>1 DEF Shape
    <3>3. LeftAfter(t)' = 2 * N + 3
      BY <1>2, <3>1, <3>2 DEF LeftAfter
    <3>4. Remaining(N, col[t])' \in 0 .. N
      <4>1. col[t] \in 0 .. B + C
        BY DEF TypeOK
      <4>2. QED
        BY <1>2, <3>1, <4>1 DEF Remaining
    <3>5. QED
      BY <1>2, <3>1, <3>3, <3>4 DEF Left
  <2>2. QED
    BY <1>1, <2>1
<1>5. QED
  BY <1>1, <1>3, <1>4

(* No block takes more steps than its size and the row's allow, for every   *)
(* size: the strides come to 0, the shuffles to distance 0, the loops to    *)
(* the end of the row, and there are two passes (softmax.cu:3-29, 35-89,    *)
(* 109-142, 147-213).                                                      *)
THEOREM SoftmaxStepsRunOut == Spec => StepsRunOut
<1>1. ASSUME TypeOK, TypeOK', Shape, InStep, [Next]_vars, ~UNCHANGED vars
      PROVE  /\ \A t \in Thread : Left(t) \in Nat /\ Left(t)' \in Nat /\ Left(t)' <= Left(t)
             /\ \E t \in Thread : Left(t)' < Left(t)
  <2>1. SameLaunch /\ 0 \in Thread /\ 0 \in Running
    BY <1>1, KernelStays, Launch DEF SameLaunch, TypeOK
  <2>2. \A t \in Thread : Left(t) \in Nat
    BY <1>1, LeftType
  <2>3. (\A t \in Thread : Left(t) \in Nat)'
    BY <1>1, LeftType, PTL
  <2>4. CASE \E t \in Thread : Step(t)
    <3>1. PICK t \in Thread : Step(t)
      BY <2>4
    <3>2. Left(t)' < Left(t) /\ \A u \in Thread \ {t} : Left(u)' = Left(u)
      BY <1>1, <2>1, <3>1, ThreadLeft
    <3>3. QED
      BY <2>2, <2>3, <3>2
  <2>5. CASE \E w \in Warp : Shuffle(w)
    <3>1. PICK w \in Warp : Shuffle(w)
      BY <2>5
    <3>2. \A t \in Thread : IF t \in Lanes(w) THEN Left(t)' < Left(t) ELSE Left(t)' = Left(t)
      BY <1>1, <2>1, <3>1, WarpLeft
    <3>3. \E t \in Thread : t \in Lanes(w)
      <4>1. 0 \in 0 .. W - 1
        OBVIOUS
      <4>2. QED
        BY <4>1, LaneAt
    <3>4. QED
      BY <2>2, <2>3, <3>2, <3>3
  <2>6. CASE Barrier \/ Sync
    <3>1. \A t \in Thread : Left(t)' < Left(t)
      BY <1>1, <2>1, <2>6, BlockLeft
    <3>2. QED
      BY <2>1, <2>2, <2>3, <3>1
  <2>7. QED
    BY <1>1, <2>4, <2>5, <2>6 DEF Next, Ended
<1>2. QED
  BY <1>1, InStepAlways, PTL DEF Spec, StepsRunOut

=============================================================================
