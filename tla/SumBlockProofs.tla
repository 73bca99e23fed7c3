--------------------------- MODULE SumBlockProofs ----------------------------
(***************************************************************************)
(* Proofs about SumBlock: its types for every kernel; that reduce_v1, and   *)
(* the second reduce_v2 wherever it ends, are right and free of data races  *)
(* for every block size that is a power of two; and what reduce_v0 and the  *)
(* first reduce_v2 do instead; and that no block is ever stuck and its steps *)
(* run out wherever the kernel's code ends.                                *)
(***************************************************************************)
EXTENDS SumBlock, Remainders, TLAPS

(* A round of the loop runs under its condition, and starts after loading.  *)
InLoop ==
  \A t \in Thread :
    /\ pc[t] \in {"fetch", "store", "wait"} /\ stride # 0 => Looping(stride)
    /\ pc[t] = "load" => stride = 0

(* A sum of two bags of inputs is one.                                     *)
LEMMA AddType == ASSUME NEW x \in Sum, NEW y \in Sum PROVE Add(x, y) \in Sum
BY DEF Sum, Add

(* So is a bag of some inputs, ...                                         *)
LEMMA OnlyType == ASSUME NEW S PROVE Only(S) \in Sum
BY DEF Sum, Only

(* ... and what a thread reads.                                            *)
LEMMA CellType == ASSUME TypeOK, NEW i \in Int PROVE Cell(i) \in Sum
BY OnlyType DEF Cell, TypeOK

(* The variables keep their types, whatever the kernel and the block size. *)
THEOREM SumTypeCorrect == Spec => []TypeOK
<1> USE SumAssumption DEF SumAssumption
<1>1. Init => TypeOK /\ InLoop
  BY OnlyType DEF Init, TypeOK, InLoop, Label
<1>2. ASSUME TypeOK, InLoop, [Next]_vars
      PROVE  TypeOK' /\ InLoop'
  <2>1. ASSUME NEW t \in Thread, Load(t)
        PROVE  TypeOK' /\ InLoop'
    <3>1. Only({t} \cup ({t + B} \cap Input)) \in Sum
      BY OnlyType
    <3>2. TypeOK'
      BY <1>2, <2>1, <3>1 DEF Load, Goto, TypeOK, Label
    <3>3. QED
      BY <1>2, <2>1, <3>2 DEF Load, Goto, TypeOK, InLoop, Looping
  <2>2. ASSUME NEW t \in Thread, Fetch(t)
        PROVE  TypeOK' /\ InLoop'
    <3>1. Add(sdata[t], Cell(t + stride)) \in Sum
      BY <1>2, AddType, CellType DEF TypeOK, Thread
    <3>2. TypeOK'
      BY <1>2, <2>2, <3>1 DEF Fetch, Goto, TypeOK, Label
    <3>3. QED
      BY <1>2, <2>2, <3>2 DEF Fetch, Goto, TypeOK, InLoop, Looping
  <2>3. ASSUME NEW t \in Thread, Store(t)
        PROVE  TypeOK' /\ InLoop'
    BY <1>2, <2>3 DEF Store, Goto, TypeOK, InLoop, Looping, Label
  <2>4. ASSUME NEW t \in Thread, Skip(t)
        PROVE  TypeOK' /\ InLoop'
    BY <1>2, <2>4 DEF Skip, Goto, TypeOK, InLoop, Looping, Label
  <2>5. CASE Barrier
    <3>1. stride' \in 0 .. 2 * B
      <4>0. 0 \in Thread
        BY DEF Thread
      <4>1. CASE stride = 0
        BY <1>2, <2>5, <4>1 DEF Barrier, FirstStride
      <4>2. CASE stride # 0
        <5>1. Looping(stride) /\ stride \in 0 .. 2 * B
          BY <1>2, <2>5, <4>0, <4>2 DEF Barrier, InLoop, TypeOK
        <5>2. CASE kernel \in {"v0", "v1"}
          <6>1. stride < B
            BY <5>1, <5>2 DEF Looping
          <6>2. stride' = 2 * stride
            BY <2>5, <4>2, <5>2 DEF Barrier, NextStride
          <6>3. QED
            BY <5>1, <6>1, <6>2
        <5>3. CASE kernel \notin {"v0", "v1"}
          BY <2>5, <4>2, <5>1, <5>3 DEF Barrier, NextStride
        <5>4. QED
          BY <5>2, <5>3
      <4>3. QED
        BY <4>1, <4>2
    <3>2. pc' \in [Thread -> Label]
      BY <2>5 DEF Barrier, Label
    <3>3. \A t \in Thread :
            /\ pc'[t] \in {"fetch", "store", "wait"} => Looping(stride')
            /\ pc'[t] # "load"
      BY <2>5 DEF Barrier, Looping
    <3>4. InLoop'
      BY <2>5, <3>3 DEF InLoop, Looping, Barrier
    <3>5. QED
      BY <1>2, <2>5, <3>1, <3>2, <3>4 DEF Barrier, TypeOK
  <2>6. ASSUME NEW t \in Thread, WarpFetch(t)
        PROVE  TypeOK' /\ InLoop'
    <3>1. Add(sdata[t], Cell(t + W)) \in Sum
      BY <1>2, AddType, CellType DEF TypeOK, Thread
    <3>2. TypeOK'
      BY <1>2, <2>6, <3>1 DEF WarpFetch, Goto, TypeOK, Label
    <3>3. QED
      BY <1>2, <2>6, <3>2 DEF WarpFetch, Goto, TypeOK, InLoop, Looping
  <2>7. CASE Shuffle
    <3>1. \A t, u \in Thread : Add(reg[t], reg[u]) \in Sum
      BY <1>2, AddType DEF TypeOK
    <3>2. CASE offset > 0
      <4>1. reg' \in [Thread -> Sum]
        BY <1>2, <2>7, <3>1, <3>2 DEF Shuffle, Lane, TypeOK
      <4>2. offset' \in 0 .. W
        BY <1>2, <2>7, <3>2 DEF Shuffle, TypeOK
      <4>3. UNCHANGED <<kernel, pc, sdata, stride, output>>
        BY <2>7, <3>2 DEF Shuffle
      <4>4. QED
        BY <1>2, <4>1, <4>2, <4>3 DEF TypeOK, InLoop, Looping
    <3>3. CASE ~(offset > 0)
      <4>1. pc' = [t \in Thread |-> IF t \in Lane THEN "warpstore" ELSE pc[t]]
        BY <2>7, <3>3 DEF Shuffle
      <4>2. UNCHANGED <<kernel, reg, offset, sdata, stride, output>>
        BY <2>7, <3>3 DEF Shuffle
      <4>3. TypeOK'
        BY <1>2, <4>1, <4>2 DEF TypeOK, Label
      <4>4. InLoop'
        BY <1>2, <4>1, <4>2 DEF InLoop, Looping
      <4>5. QED
        BY <4>3, <4>4
    <3>4. QED
      BY <3>2, <3>3
  <2>8. ASSUME NEW t \in Thread, WarpStore(t)
        PROVE  TypeOK' /\ InLoop'
    BY <1>2, <2>8 DEF WarpStore, Goto, TypeOK, InLoop, Looping, Label
  <2>9. ASSUME NEW t \in Thread, Finish(t)
        PROVE  TypeOK' /\ InLoop'
    BY <1>2, <2>9 DEF Finish, Goto, TypeOK, InLoop, Looping, Label, Thread
  <2>10. CASE UNCHANGED vars
    BY <1>2, <2>10 DEF vars, TypeOK, InLoop, Looping
  <2>11. QED
    BY <1>2, <2>1, <2>2, <2>3, <2>4, <2>5, <2>6, <2>7, <2>8, <2>9, <2>10
       DEF Next, Step, Ended
<1>3. QED
  BY <1>1, <1>2, PTL DEF Spec
-----------------------------------------------------------------------------
(* reduce_v1 with a power of two of threads: every divisor of B but 1 is   *)
(* even.                                                                   *)
Divisor(s) == s \in 1 .. B /\ B % s = 0

PowerOfTwo == \A d \in Nat : Divisor(d) => d = 1 \/ d % 2 = 0

V1 == PowerOfTwo /\ kernel = "v1"

(* A divisor other than 1 is even.                                         *)
LEMMA EvenDivisor ==
  ASSUME PowerOfTwo, NEW m \in Nat, Divisor(m), m > 1
  PROVE  m % 2 = 0
<1>1. m # 1
  OBVIOUS
<1>2. QED
  BY <1>1, Zenon DEF PowerOfTwo

(* While the stride is below B it can double: it goes through all the       *)
(* powers of two up to B.                                                  *)
LEMMA StrideDoubles ==
  ASSUME PowerOfTwo, NEW s \in Nat, Divisor(s), s < B
  PROVE  Divisor(2 * s)
<1> USE SumAssumption DEF SumAssumption, Divisor
<1>1. PICK m \in Nat : B = m * s
  BY Quotient
<1>2. m > 1
  BY <1>1
<1>3. B = s * m /\ m <= B
  BY <1>1, <1>2
<1>4. Divisor(m)
  <2>1. (s * m) % m = 0
    BY <1>2, Multiple
  <2>2. QED
    BY <1>2, <1>3, <2>1
<1>5. PICK q \in Nat : m = q * 2
  <2>1. m % 2 = 0
    BY <1>2, <1>4, EvenDivisor
  <2>2. QED
    BY <2>1, Quotient
<1>6. B = q * (2 * s) /\ q >= 1
  BY <1>1, <1>2, <1>5
<1>7. 2 * s <= B
  BY <1>6
<1>8. B % (2 * s) = 0
  <2>1. \A d \in Nat \ {0} : (q * d) % d = 0
    BY Multiple
  <2>2. 2 * s \in Nat \ {0}
    BY <1>1, <1>2
  <2>3. (q * (2 * s)) % (2 * s) = 0
    BY <2>1, <2>2
  <2>4. QED
    BY <1>6, <2>3
<1>9. QED
  BY <1>7, <1>8

(* In a round of stride s an active thread adds the cell of an idle thread, *)
(* inside the array.                                                       *)
LEMMA Partner ==
  ASSUME NEW s \in Nat \ {0}, Divisor(2 * s), NEW t \in Thread, t % (2 * s) = 0
  PROVE  /\ t % s = 0
         /\ t + 2 * s <= B
         /\ t + s \in Thread
         /\ (t + s) % s = 0
         /\ (t + s) % (2 * s) # 0
<1> USE SumAssumption DEF SumAssumption, Divisor, Thread
<1>1. PICK q \in Nat : t = q * (2 * s)
  BY Quotient
<1>2. PICK m \in Nat : B = m * (2 * s)
  BY Quotient
<1>3. q + 1 <= m
  BY <1>1, <1>2
<1>4. (q + 1) * (2 * s) <= m * (2 * s)
  BY <1>3
<1>5. t + 2 * s <= B
  BY <1>1, <1>2, <1>4
<1>6. t = (2 * q) * s /\ t + s = (2 * q + 1) * s
  BY <1>1
<1>7. t % s = 0 /\ (t + s) % s = 0
  BY <1>6, Multiple
<1>8. (t + s) % (2 * s) = s
  <2>1. \A d \in Nat \ {0} : s < d => (q * d + s) % d = s
    BY Remainder
  <2>2. 2 * s \in Nat \ {0} /\ s < 2 * s
    OBVIOUS
  <2>3. (q * (2 * s) + s) % (2 * s) = s
    BY <2>1, <2>2
  <2>4. QED
    BY <1>1, <2>3
<1>9. QED
  BY <1>5, <1>7, <1>8

(* Two neighbouring segments add up to one of twice the width.             *)
LEMMA SegmentsAdd ==
  ASSUME NEW s \in Nat \ {0}, NEW t \in Thread, t + 2 * s <= B
  PROVE  Add(Only(Segment(t, s)), Only(Segment(t + s, s))) = Only(Segment(t, 2 * s))
<1> DEFINE x == Only(Segment(t, s))
           y == Only(Segment(t + s, s))
           z == Only(Segment(t, 2 * s))
<1>1. ASSUME NEW k \in Index \cup {Junk}
      PROVE  (IF x[k] + y[k] > 2 THEN 2 ELSE x[k] + y[k]) = z[k]
  <2>1. k \in Int /\ B \in Nat /\ t \in Nat
    BY SumAssumption DEF SumAssumption, Thread, Index, Junk
  <2>2. k \in Segment(t, 2 * s) <=> (k \in Segment(t, s) \/ k \in Segment(t + s, s))
    BY <2>1 DEF Segment
  <2>3. ~(k \in Segment(t, s) /\ k \in Segment(t + s, s))
    BY <2>1 DEF Segment
  <2>4. /\ x[k] = IF k \in Segment(t, s) THEN 1 ELSE 0
        /\ y[k] = IF k \in Segment(t + s, s) THEN 1 ELSE 0
        /\ z[k] = IF k \in Segment(t, 2 * s) THEN 1 ELSE 0
    BY DEF Only
  <2>5. QED
    BY <2>2, <2>3, <2>4
<1>2. z = [k \in Index \cup {Junk} |-> z[k]]
  BY DEF Only
<1>3. QED
  BY <1>1, <1>2 DEF Add

(* What v1 loads, and what it is to deliver.                               *)
LEMMA SegmentEnds ==
  ASSUME V1
  PROVE  /\ \A t \in Thread : Only({t} \cup ({t + B} \cap Input)) = Only(Segment(t, 1))
         /\ Only(Segment(0, B)) = Only(Input)
<1> USE SumAssumption DEF SumAssumption, V1
<1>1. ASSUME NEW t \in Thread
      PROVE  {t} \cup ({t + B} \cap Input) = Segment(t, 1)
  BY DEF Segment, Input, Index, Thread
<1>2. Segment(0, B) = Input
  BY DEF Segment, Input, Index
<1>3. QED
  BY <1>1, <1>2
-----------------------------------------------------------------------------
(* The inductive invariant: in the round of stride s the cells at multiples *)
(* of s hold segments of width s, those of the active threads one of twice *)
(* the width once they have stored.                                        *)
Loading ==
  /\ stride = 0
  /\ \A t \in Thread :
       \/ pc[t] = "load"
       \/ pc[t] = "wait" /\ sdata[t] = Only(Segment(t, 1))

Summing ==
  /\ Divisor(stride)
  /\ stride < B
  /\ \A t \in Thread : pc[t] \in {"fetch", "store", "wait"}
  /\ \A t \in Thread : t % (2 * stride) = 0 =>
       /\ pc[t] = "fetch" => sdata[t] = Only(Segment(t, stride))
       /\ pc[t] = "store" => reg[t] = Only(Segment(t, 2 * stride))
       /\ pc[t] = "wait" => sdata[t] = Only(Segment(t, 2 * stride))
  /\ \A t \in Thread : t % (2 * stride) # 0 =>
       /\ pc[t] # "store"
       /\ t % stride = 0 => sdata[t] = Only(Segment(t, stride))

Finishing ==
  /\ stride >= B
  /\ \A t \in Thread : pc[t] \in {"finish", "done"}
  /\ sdata[0] = Only(Input)
  /\ pc[0] = "done" => output = Only(Input)

V1Inv == TypeOK /\ (Loading \/ Summing \/ Finishing)

(* A thread's load and its idle step keep the invariant.                   *)
LEMMA V1Load ==
  ASSUME V1, V1Inv, TypeOK', NEW t \in Thread, Load(t)
  PROVE  Loading'
<1>1. Loading
  BY DEF V1Inv, Load, Summing, Finishing
<1>2. QED
  BY <1>1, SegmentEnds DEF Load, Goto, Loading, V1Inv, TypeOK

(* The addition reads the partner's segment, which nobody writes.          *)
LEMMA V1Fetch ==
  ASSUME V1, V1Inv, TypeOK', NEW t \in Thread, Fetch(t)
  PROVE  Summing'
<1> USE SumAssumption DEF SumAssumption
<1>1. Summing
  BY DEF V1Inv, Fetch, Loading, Finishing
<1>2. /\ t % (2 * stride) = 0
      /\ stride \in Nat \ {0}
  BY <1>1 DEF V1, Fetch, Active, Summing, Divisor
<1>3. Divisor(2 * stride)
  BY <1>1, <1>2, StrideDoubles DEF V1, Summing
<1>4. /\ t + 2 * stride <= B
      /\ t + stride \in Thread
      /\ sdata[t + stride] = Only(Segment(t + stride, stride))
  BY <1>1, <1>2, <1>3, Partner DEF Summing
<1>5. sdata[t] = Only(Segment(t, stride))
  BY <1>1, <1>2 DEF Summing, Fetch
<1>6. Add(sdata[t], Cell(t + stride)) = Only(Segment(t, 2 * stride))
  BY <1>2, <1>4, <1>5, SegmentsAdd DEF Cell
<1>7. /\ pc' = [pc EXCEPT ![t] = "store"]
      /\ reg' = [reg EXCEPT ![t] = Only(Segment(t, 2 * stride))]
      /\ UNCHANGED <<sdata, stride>>
  BY <1>6 DEF Fetch, Goto
<1>8. pc \in [Thread -> Label] /\ reg \in [Thread -> Sum]
  BY DEF V1Inv, TypeOK
<1>9. QED
  BY <1>1, <1>2, <1>7, <1>8 DEF Summing

(* The store puts the wider segment in place.                              *)
LEMMA V1Store ==
  ASSUME V1, V1Inv, TypeOK', NEW t \in Thread, Store(t)
  PROVE  Summing'
<1>1. Summing
  BY DEF V1Inv, Store, Loading, Finishing
<1>2. t % (2 * stride) = 0 /\ reg[t] = Only(Segment(t, 2 * stride))
  BY <1>1 DEF Store, Summing
<1>3. /\ pc' = [pc EXCEPT ![t] = "wait"]
      /\ sdata' = [sdata EXCEPT ![t] = Only(Segment(t, 2 * stride))]
      /\ UNCHANGED <<reg, stride>>
  BY <1>2 DEF Store, Goto
<1>4. pc \in [Thread -> Label] /\ sdata \in [Thread -> Sum]
  BY DEF V1Inv, TypeOK
<1>5. QED
  BY <1>1, <1>2, <1>3, <1>4 DEF Summing

(* A thread that is idle in the round changes no segment.                  *)
LEMMA V1Skip ==
  ASSUME V1, V1Inv, TypeOK', NEW t \in Thread, Skip(t)
  PROVE  Summing'
<1>1. Summing
  BY DEF V1Inv, Skip, Loading, Finishing
<1>2. t % (2 * stride) # 0
  BY DEF V1, Skip, Active
<1>3. pc' = [pc EXCEPT ![t] = "wait"] /\ UNCHANGED <<sdata, reg, stride>>
  BY DEF Skip, Goto
<1>4. pc \in [Thread -> Label]
  BY DEF V1Inv, TypeOK
<1>5. QED
  BY <1>1, <1>2, <1>3, <1>4 DEF Summing

(* The barrier turns the wider segments into the next round's, or into the *)
(* block's sum.                                                            *)
LEMMA V1Barrier ==
  ASSUME V1, V1Inv, TypeOK', Barrier
  PROVE  Summing' \/ Finishing'
<1> USE SumAssumption DEF SumAssumption
<1>1. 0 \in Thread /\ \A t \in Thread : pc[t] = "wait"
  BY DEF Barrier, Thread
<1>2. /\ stride' = IF stride = 0 THEN 1 ELSE 2 * stride
      /\ pc' = [t \in Thread |-> IF stride' < B THEN "fetch" ELSE "finish"]
      /\ UNCHANGED <<sdata, reg, output>>
      /\ Input' = Input
  BY DEF V1, Barrier, FirstStride, NextStride, Looping, Input
<1>3. /\ Divisor(stride')
      /\ \A t \in Thread : t % stride' = 0 => sdata[t] = Only(Segment(t, stride'))
  <2>1. CASE Loading
    <3>1. stride' = 1
      BY <1>2, <2>1 DEF Loading
    <3>2. B % 1 = 0
      BY SMT
    <3>3. QED
      BY <1>1, <2>1, <3>1, <3>2 DEF Loading, Divisor
  <2>2. CASE Summing
    <3>1. stride' = 2 * stride /\ stride \in Nat
      BY <1>2, <2>2 DEF Summing, Divisor
    <3>2. Divisor(2 * stride)
      BY <2>2, <3>1, StrideDoubles DEF V1, Summing
    <3>3. \A t \in Thread :
            t % (2 * stride) = 0 => sdata[t] = Only(Segment(t, 2 * stride))
      BY <1>1, <2>2 DEF Summing
    <3>4. QED
      BY <3>1, <3>2, <3>3
  <2>3. QED
    BY <1>1, <2>1, <2>2 DEF V1Inv, Finishing
<1>4. CASE stride' < B
  <2>1. \A t \in Thread : pc'[t] = "fetch"
    BY <1>2, <1>4
  <2>2. \A t \in Thread : t % (2 * stride') = 0 => t % stride' = 0
    <3>1. stride' \in Nat \ {0}
      BY <1>3 DEF Divisor
    <3>2. Divisor(2 * stride')
      BY <1>3, <1>4, <3>1, StrideDoubles DEF V1
    <3>3. QED
      BY <3>1, <3>2, Partner
  <2>3. QED
    BY <1>2, <1>3, <1>4, <2>1, <2>2 DEF Summing, Divisor
<1>5. CASE ~(stride' < B)
  <2>1. stride' = B
    BY <1>3, <1>5 DEF Divisor
  <2>2. 0 % B = 0
    BY SMT
  <2>3. sdata[0] = Only(Segment(0, B))
    BY <1>1, <1>3, <2>1, <2>2
  <2>4. \A t \in Thread : pc'[t] = "finish"
    BY <1>2, <1>5
  <2>5. QED
    BY <1>1, <1>2, <2>1, <2>3, <2>4, SegmentEnds DEF Finishing
<1>6. QED
  BY <1>4, <1>5

(* Writing the result.                                                     *)
LEMMA V1Finish ==
  ASSUME V1, V1Inv, TypeOK', NEW t \in Thread, Finish(t)
  PROVE  Finishing'
<1>1. Finishing
  BY DEF V1Inv, Finish, Loading, Summing
<1>2. pc \in [Thread -> Label] /\ 0 \in Thread
  BY SumAssumption DEF V1Inv, TypeOK, SumAssumption, Thread
<1>3. QED
  BY <1>1, <1>2 DEF Finish, Goto, Finishing, Input

(* Every step of v1 keeps the invariant.                                   *)
LEMMA V1Step ==
  ASSUME V1, V1Inv, TypeOK', [Next]_vars
  PROVE  V1Inv'
<1>1. \A t \in Thread : pc[t] \notin {"warp", "shuffle", "warpstore"}
  BY DEF V1Inv, Loading, Summing, Finishing
<1>2. ASSUME NEW t \in Thread, Step(t)
      PROVE  V1Inv'
  BY <1>1, <1>2, V1Load, V1Fetch, V1Store, V1Skip, V1Finish
     DEF Step, WarpFetch, WarpStore, V1Inv
<1>3. CASE Barrier
  BY <1>3, V1Barrier DEF V1Inv
<1>4. CASE Shuffle
  BY <1>1, <1>4 DEF Shuffle, Lane
<1>5. CASE UNCHANGED vars
  BY <1>5 DEF vars, V1Inv, Loading, Summing, Finishing, Input
<1>6. QED
  BY <1>2, <1>3, <1>4, <1>5 DEF Next, Ended

(* A launch runs one kernel.                                               *)
LEMMA KernelStays == [Next]_vars => kernel' = kernel
BY DEF Next, Step, Load, Fetch, Store, Skip, Barrier, WarpFetch, Shuffle, WarpStore,
   Finish, Ended, vars

(* In reduce_v1 no thread writes a cell another has still to read, the      *)
(* rounds lose and repeat no input, and the output is the block's sum, for  *)
(* every block size that is a power of two.                                *)
THEOREM ReduceV1Correct ==
  ASSUME PowerOfTwo
  PROVE  Spec => [](kernel = "v1" => NoRace /\ SegmentsAreSummed /\ Correct)
<1> USE SumAssumption DEF SumAssumption
<1> DEFINE Inv == kernel = "v1" => V1Inv
<1>1. Init /\ TypeOK => Inv
  BY DEF Init, V1Inv, Loading
<1>2. Inv /\ TypeOK' /\ [Next]_vars => Inv'
  BY KernelStays, V1Step DEF V1
<1>3. V1 /\ V1Inv => NoRace
  <2> SUFFICES ASSUME V1, V1Inv, NEW t \in Thread, NEW u \in Thread,
                      t # u, Writes(t) # {}, t \in Reads(u)
               PROVE  FALSE
    BY DEF NoRace, Writes
  <2>1. pc[t] = "store" /\ pc[u] = "fetch" /\ Active(u) /\ u + stride = t
    BY DEF V1Inv, Loading, Summing, Finishing, Writes, Reads
  <2>2. Summing /\ t % (2 * stride) = 0 /\ u % (2 * stride) = 0
    BY <2>1 DEF V1Inv, Loading, Summing, Finishing, Active, V1
  <2>3. stride \in Nat \ {0} /\ Divisor(2 * stride)
    BY <2>2, StrideDoubles DEF V1, Summing, Divisor
  <2>4. QED
    BY <2>1, <2>2, <2>3, Partner
<1>4. V1Inv => SegmentsAreSummed
  <2> SUFFICES ASSUME V1Inv, \A t \in Thread : pc[t] = "fetch",
                      NEW t \in Thread, t % stride = 0
               PROVE  sdata[t] = Only(Segment(t, stride))
    BY DEF SegmentsAreSummed
  <2>1. Summing
    BY DEF V1Inv, Loading, Finishing
  <2>2. QED
    BY <2>1 DEF Summing
<1>5. V1Inv => Correct
  <2>1. 0 \in Thread
    BY DEF Thread
  <2>2. QED
    BY <2>1 DEF V1Inv, Loading, Summing, Finishing, Correct, Done
<1>6. Inv => (kernel = "v1" => NoRace /\ SegmentsAreSummed /\ Correct)
  BY <1>3, <1>4, <1>5 DEF V1
<1>7. QED
  BY <1>1, <1>2, <1>6, SumTypeCorrect, PTL DEF Spec
-----------------------------------------------------------------------------
(* What is left of reduce_v0: thread 0 only ever loads and waits, and no    *)
(* other thread writes its cell.                                           *)
V0Inv ==
  /\ pc[0] \in {"load", "wait", "fetch", "finish", "done"}
  /\ pc[0] # "load" => sdata[0] = Only({0})
  /\ pc[0] = "fetch" => stride # 0
  /\ pc[0] = "done" => output = Only({0})

(* The result of reduce_v0 is its first input, for every block size.       *)
THEOREM ReduceV0KeepsFirst == Spec => []V0KeepsFirst
<1> USE SumAssumption DEF SumAssumption
<1> DEFINE Inv == kernel = "v0" => V0Inv
<1>0. 0 \in Thread
  BY DEF Thread
<1>1. Init => Inv
  BY <1>0 DEF Init, V0Inv
<1>2. ASSUME TypeOK, Inv, [Next]_vars
      PROVE  Inv'
  <2> SUFFICES ASSUME kernel = "v0", V0Inv
               PROVE  V0Inv'
    BY <1>2, KernelStays
  <2>0. pc \in [Thread -> Label] /\ sdata \in [Thread -> Sum] /\ stride \in Nat
    BY <1>2 DEF TypeOK
  <2>1. ASSUME NEW t \in Thread, Load(t)
        PROVE  V0Inv'
    <3>1. {0} \cup ({0 + B} \cap Input) = {0}
      BY DEF Input, Index
    <3>2. QED
      BY <1>0, <2>0, <2>1, <3>1 DEF Load, Goto, V0Inv
  <2>2. ASSUME NEW t \in Thread, Fetch(t)
        PROVE  V0Inv'
    <3>1. t # 0
      <4>1. ASSUME t = 0 PROVE FALSE
        <5>1. 2 * stride \in Nat \ {0}
          BY <2>0, <2>2, <4>1 DEF Fetch, V0Inv
        <5>2. 0 % (2 * stride) = 0
          BY <5>1, SMT
        <5>3. QED
          BY <2>2, <4>1, <5>2 DEF Fetch, Active
      <4>2. QED
        BY <4>1
    <3>2. QED
      BY <1>0, <2>0, <2>2, <3>1 DEF Fetch, Goto, V0Inv
  <2>3. ASSUME NEW t \in Thread, Store(t)
        PROVE  V0Inv'
    BY <1>0, <2>0, <2>3 DEF Store, Goto, V0Inv
  <2>4. ASSUME NEW t \in Thread, Skip(t) \/ WarpFetch(t) \/ WarpStore(t)
        PROVE  V0Inv'
    BY <1>0, <2>0, <2>4 DEF Skip, WarpFetch, WarpStore, Goto, V0Inv
  <2>5. CASE Barrier
    <3>1. pc'[0] \in {"fetch", "finish"} /\ stride' # 0
      BY <1>0, <2>0, <2>5 DEF Barrier, FirstStride, NextStride
    <3>2. QED
      BY <1>0, <2>5, <3>1 DEF Barrier, V0Inv
  <2>6. CASE Shuffle
    BY <1>0, <2>6 DEF Shuffle, Lane, V0Inv
  <2>7. ASSUME NEW t \in Thread, Finish(t)
        PROVE  V0Inv'
    BY <1>0, <2>0, <2>7 DEF Finish, Goto, V0Inv
  <2>8. CASE UNCHANGED vars
    BY <2>8 DEF vars, V0Inv
  <2>9. QED
    BY <1>2, <2>1, <2>2, <2>3, <2>4, <2>5, <2>6, <2>7, <2>8 DEF Next, Step, Ended
<1>3. Inv => V0KeepsFirst
  BY <1>0 DEF V0Inv, V0KeepsFirst, Done
<1>4. QED
  BY <1>1, <1>2, <1>3, SumTypeCorrect, PTL DEF Spec

(* A v2 kernel that enters its loop is in it for ever, for every block size *)
(* and warp size.                                                          *)
THEOREM V2NeverEnds == Spec => []EndlessNeverEnds
<1> USE SumAssumption DEF SumAssumption
<1> DEFINE Round == /\ \A t \in Thread : pc[t] \in {"load", "wait", "fetch", "store"}
                    /\ stride \in {0, B \div 2}
           Inv == Endless => Round
<1>0. 0 \in Thread
  BY DEF Thread
<1>1. Init => Inv
  BY DEF Init
<1>2. ASSUME TypeOK, Inv, [Next]_vars
      PROVE  Inv'
  <2> SUFFICES ASSUME Endless, Round
               PROVE  Round'
    BY <1>2, KernelStays DEF Endless
  <2>0. pc \in [Thread -> Label]
    BY <1>2 DEF TypeOK
  <2>1. ASSUME NEW t \in Thread, Step(t)
        PROVE  Round'
    BY <2>0, <2>1 DEF Step, Load, Fetch, Store, Skip, WarpFetch, WarpStore, Finish, Goto
  <2>2. CASE Barrier
    <3>1. stride' = B \div 2
      BY <2>2 DEF Barrier, Endless, FirstStride, NextStride
    <3>2. Looping(B \div 2)
      <4>1. B > 1 => B \div 2 > 0
        BY SMT
      <4>2. QED
        BY <4>1 DEF Endless, Looping
    <3>3. QED
      BY <2>2, <3>1, <3>2 DEF Barrier
  <2>3. CASE Shuffle
    BY <2>3 DEF Shuffle, Lane
  <2>4. CASE UNCHANGED vars
    BY <2>4 DEF vars
  <2>5. ~Ended
    BY <1>0 DEF Ended
  <2>6. QED
    BY <1>2, <2>1, <2>2, <2>3, <2>4, <2>5 DEF Next
<1>3. Inv => EndlessNeverEnds
  BY DEF EndlessNeverEnds
<1>4. QED
  BY <1>1, <1>2, <1>3, SumTypeCorrect, PTL DEF Spec
-----------------------------------------------------------------------------
(* The second reduce_v2 in a block of two warps, where its loop is not      *)
(* entered: one warp adds the cells of the other to its own and shuffles.   *)
TwoWarps == PowerOfTwo /\ kernel = "v2_warp" /\ B = 2 * W

(* The inputs of remainder r by m.                                         *)
Residue(m, r) == {k \in Index : k % m = r}

(* So many lanes still have something to add.                              *)
Width == IF offset = 0 THEN 1 ELSE 2 * offset

(* Before the barrier, ...                                                 *)
Pairing ==
  /\ stride = 0
  /\ offset = W \div 2
  /\ \A t \in Thread : \/ pc[t] = "load"
                       \/ pc[t] = "wait" /\ sdata[t] = Only({t, t + B})

(* ... and after it: a lane that still counts has the inputs of its         *)
(* remainder by the width.                                                 *)
Shuffling ==
  /\ stride # 0
  /\ W % Width = 0
  /\ \A t \in Thread :
       /\ pc[t] \in {"warp", "shuffle", "warpstore", "finish", "done"}
       /\ t >= W => pc[t] \in {"finish", "done"}
       /\ t >= W \/ pc[t] = "warp" => sdata[t] = Only({t, t + B})
       /\ pc[t] = "warp" => offset = W \div 2
       /\ pc[t] = "shuffle" /\ t < Width => reg[t] = Only(Residue(Width, t))
  /\ pc[0] = "warpstore" => reg[0] = Only(Index)
  /\ pc[0] = "finish" => sdata[0] = Only(Index)
  /\ pc[0] = "done" => output = Only(Index)

WarpInv == Pairing \/ Shuffling

(* Sums of disjoint bags.                                                  *)
LEMMA Disjoint ==
  ASSUME NEW S \in SUBSET Index, NEW T \in SUBSET Index, S \cap T = {}
  PROVE  Add(Only(S), Only(T)) = Only(S \cup T)
<1>1. ASSUME NEW k \in Index \cup {Junk}
      PROVE  Add(Only(S), Only(T))[k] = Only(S \cup T)[k]
  BY DEF Add, Only
<1>2. /\ Add(Only(S), Only(T)) = [k \in Index \cup {Junk} |-> Add(Only(S), Only(T))[k]]
      /\ Only(S \cup T) = [k \in Index \cup {Junk} |-> Only(S \cup T)[k]]
  BY DEF Add, Only
<1>3. QED
  BY <1>1, <1>2

(* A lane starts with the inputs of its remainder by the warp size, ...    *)
LEMMA ResidueOfPair ==
  ASSUME B = 2 * W, NEW t \in 0 .. W - 1
  PROVE  /\ t \in Thread /\ t + W \in Thread
         /\ Add(Only({t, t + B}), Only({t + W, t + W + B})) = Only(Residue(W, t))
<1> USE SumAssumption DEF SumAssumption
<1>1. t \in Thread /\ t + W \in Thread
  BY DEF Thread
<1>2. {t, t + B} \in SUBSET Index /\ {t + W, t + W + B} \in SUBSET Index
  BY DEF Index
<1>3. {t, t + B} \cap {t + W, t + W + B} = {}
  OBVIOUS
<1>4. {t, t + B} \cup {t + W, t + W + B} = Residue(W, t)
  <2>1. ASSUME NEW k \in {t, t + B} \cup {t + W, t + W + B} PROVE k % W = t
    <3>1. k \in {0 * W + t, 1 * W + t, 2 * W + t, 3 * W + t}
      OBVIOUS
    <3>2. \A q \in Nat : (q * W + t) % W = t
      BY Remainder
    <3>3. QED
      BY <3>1, <3>2
  <2>2. ASSUME NEW k \in Index, k % W = t
        PROVE  k \in {t, t + B} \cup {t + W, t + W + B}
    <3> DEFINE q == k \div W
    <3>1. k \in Nat /\ k < 4 * W
      BY DEF Index
    <3>2. q \in Nat /\ k = q * W + t
      BY <2>2, <3>1, Division
    <3> HIDE DEF q
    <3>3. ASSUME q >= 4 PROVE FALSE
      <4>1. q * W >= 4 * W
        BY <3>2, <3>3
      <4>2. QED
        BY <3>1, <3>2, <4>1
    <3>4. q \in {0, 1, 2, 3}
      BY <3>2, <3>3
    <3>5. QED
      BY <3>2, <3>4
  <2>3. QED
    BY <1>2, <2>1, <2>2 DEF Residue
<1>5. QED
  BY <1>1, <1>2, <1>3, <1>4, Disjoint

(* ... gets those of half the width in a shuffle, ...                      *)
LEMMA ResidueHalves ==
  ASSUME NEW d \in Nat \ {0}, NEW r \in 0 .. d - 1
  PROVE  Add(Only(Residue(2 * d, r)), Only(Residue(2 * d, r + d))) = Only(Residue(d, r))
<1>1. ASSUME NEW k \in Index
      PROVE  k % d = r <=> k % (2 * d) = r \/ k % (2 * d) = r + d
  <2>1. k \in Nat
    BY SumAssumption DEF SumAssumption, Index
  <2>2. k % d \in 0 .. d - 1 /\ (k % (2 * d) = k % d \/ k % (2 * d) = (k % d) + d)
    BY <2>1, Division, Halves
  <2>3. QED
    BY <2>2
<1>2. Residue(2 * d, r) \cup Residue(2 * d, r + d) = Residue(d, r)
  BY <1>1 DEF Residue
<1>3. Residue(2 * d, r) \cap Residue(2 * d, r + d) = {}
  BY DEF Residue
<1>4. \A m, j : Residue(m, j) \in SUBSET Index
  BY DEF Residue
<1>5. QED
  BY <1>2, <1>3, <1>4, Disjoint

(* ... and lane 0 all of them in the end.                                  *)
LEMMA ResidueOfAll == Residue(1, 0) = Index
<1>1. \A k \in Index : k % 1 = 0
  BY SumAssumption DEF SumAssumption, Index
<1>2. QED
  BY <1>1 DEF Residue

(* The distances are W \div 2, W \div 4, ..., 1, and 0 in the end.         *)
LEMMA Distances ==
  ASSUME PowerOfTwo, B = 2 * W
  PROVE  /\ W % (IF W \div 2 = 0 THEN 1 ELSE 2 * (W \div 2)) = 0
         /\ (IF W \div 2 = 0 THEN 1 ELSE 2 * (W \div 2)) = W
         /\ \A d \in Nat \ {0} : W % (2 * d) = 0 =>
              /\ 2 * d <= W /\ W % d = 0
              /\ (IF d \div 2 = 0 THEN 1 ELSE 2 * (d \div 2)) = d
<1> USE SumAssumption DEF SumAssumption
<1>1. ASSUME NEW d \in Nat \ {0}, W % d = 0
      PROVE  (d = 1 \/ d % 2 = 0) /\ d <= W
  <2>1. PICK q \in Nat : W = q * d
    BY <1>1, Quotient
  <2>2. B = (2 * q) * d /\ 2 * q \in Nat
    BY <2>1
  <2>3. B % d = 0
    BY <2>2, Multiple
  <2>4. q # 0
    BY <2>1
  <2>5. 1 * d <= q * d
    BY <2>4
  <2>6. d <= W
    BY <2>1, <2>5
  <2>7. Divisor(d)
    BY <2>3, <2>6 DEF Divisor
  <2>8. QED
    BY <2>6, <2>7 DEF PowerOfTwo
<1>2. \A d \in Nat \ {0} : d = 1 \/ d % 2 = 0
        => (IF d \div 2 = 0 THEN 1 ELSE 2 * (d \div 2)) = d
  OBVIOUS
<1>3. W % W = 0
  <2>1. (1 * W) % W = 0 /\ 1 * W = W
    BY Multiple
  <2>2. QED
    BY <2>1
<1>4. (IF W \div 2 = 0 THEN 1 ELSE 2 * (W \div 2)) = W
  BY <1>1, <1>2, <1>3
<1>5. ASSUME NEW d \in Nat \ {0}, W % (2 * d) = 0
      PROVE  /\ 2 * d <= W /\ W % d = 0
             /\ (IF d \div 2 = 0 THEN 1 ELSE 2 * (d \div 2)) = d
  <2> DEFINE e == 2 * d
  <2>1. e \in Nat \ {0} /\ W % e = 0
    BY <1>5
  <2>2. e <= W
    BY <1>1, <2>1
  <2>3. PICK q \in Nat : W = q * e
    BY <2>1, Quotient
  <2>4. W = (2 * q) * d /\ 2 * q \in Nat
    BY <2>3
  <2>5. W % d = 0
    BY <2>4, Multiple
  <2>6. QED
    BY <1>1, <1>2, <2>2, <2>5
<1>6. QED
  BY <1>3, <1>4, <1>5

(* The steps of a thread, ...                                              *)
LEMMA WarpThread ==
  ASSUME TwoWarps, TypeOK, WarpInv, NEW t \in Thread, Step(t)
  PROVE  WarpInv'
<1> USE SumAssumption DEF SumAssumption
<1>0. /\ t \in Nat /\ 0 \in Thread /\ pc \in [Thread -> Label] /\ sdata \in [Thread -> Sum]
      /\ reg \in [Thread -> Sum] /\ Input = Index /\ kernel = "v2_warp"
  BY DEF Thread, TypeOK, TwoWarps, Input
<1>1. CASE Load(t)
  <2>1. Pairing
    BY <1>1 DEF WarpInv, Shuffling, Load
  <2>2. {t} \cup ({t + B} \cap Input) = {t, t + B}
    BY <1>0 DEF Index, Thread
  <2>3. Pairing'
    BY <1>0, <1>1, <2>1, <2>2 DEF Pairing, Load, Goto
  <2>4. QED
    BY <2>3 DEF WarpInv
<1>2. CASE Fetch(t) \/ Store(t) \/ Skip(t)
  BY <1>2 DEF WarpInv, Pairing, Shuffling, Fetch, Store, Skip
<1>3. CASE WarpFetch(t)
  <2>0. Shuffling /\ pc[t] = "warp"
    BY <1>3 DEF WarpInv, Pairing, WarpFetch
  <2>1. t \in 0 .. W - 1
    <3>1. ~(t >= W)
      BY <2>0 DEF Shuffling
    <3>2. QED
      BY <1>0, <3>1
  <2>2. /\ t + W \in Thread /\ t + W >= W /\ t + W \in Int
        /\ Add(Only({t, t + B}), Only({t + W, t + W + B})) = Only(Residue(W, t))
    BY <2>1, ResidueOfPair DEF TwoWarps
  <2>3. sdata[t] = Only({t, t + B}) /\ sdata[t + W] = Only({t + W, t + W + B})
    BY <2>0, <2>2 DEF Shuffling
  <2>4. /\ reg' = [reg EXCEPT ![t] = Only(Residue(W, t))]
        /\ pc' = [pc EXCEPT ![t] = "shuffle"]
        /\ UNCHANGED <<kernel, sdata, stride, offset, output>>
    BY <1>3, <2>2, <2>3 DEF WarpFetch, Goto, Cell
  <2>5. Width = W /\ Width' = Width
    BY <2>0, <2>4, Distances DEF Shuffling, Width, TwoWarps
  <2>6. Shuffling'
    BY <1>0, <2>0, <2>1, <2>4, <2>5 DEF Shuffling
  <2>7. QED
    BY <2>6 DEF WarpInv
<1>4. CASE WarpStore(t)
  <2>0. Shuffling /\ pc[t] = "warpstore"
    BY <1>4 DEF WarpInv, Pairing, WarpStore
  <2>1. t < W
    <3>1. ~(t >= W)
      BY <2>0 DEF Shuffling
    <3>2. QED
      BY <1>0, <3>1
  <2>2. /\ sdata' = [sdata EXCEPT ![t] = reg[t]]
        /\ pc' = [pc EXCEPT ![t] = "finish"]
        /\ UNCHANGED <<kernel, reg, stride, offset, output>> /\ Width' = Width
    BY <1>4 DEF WarpStore, Goto, Width
  <2>3. Shuffling'
    BY <1>0, <2>0, <2>1, <2>2 DEF Shuffling
  <2>4. QED
    BY <2>3 DEF WarpInv
<1>5. CASE Finish(t)
  <2>1. Shuffling /\ pc[t] = "finish"
    BY <1>5 DEF WarpInv, Pairing, Finish
  <2>2. /\ output' = IF t = 0 THEN sdata[0] ELSE output
        /\ pc' = [pc EXCEPT ![t] = "done"]
        /\ UNCHANGED <<kernel, sdata, reg, stride, offset>> /\ Width' = Width
    BY <1>5 DEF Finish, Goto, Width
  <2>3. Shuffling'
    BY <1>0, <2>1, <2>2 DEF Shuffling
  <2>4. QED
    BY <2>3 DEF WarpInv
<1>6. QED
  BY <1>1, <1>2, <1>3, <1>4, <1>5 DEF Step

(* ... and those of the block and of the warp.                             *)
LEMMA WarpTogether ==
  ASSUME TwoWarps, TypeOK, WarpInv, Barrier \/ Shuffle
  PROVE  WarpInv'
<1> USE SumAssumption DEF SumAssumption
<1>0. /\ 0 \in Thread /\ 0 \in Lane /\ kernel = "v2_warp" /\ B = 2 * W /\ PowerOfTwo
      /\ offset \in Nat /\ reg \in [Thread -> Sum]
      /\ \A t \in Thread : t \in Nat /\ (t \in Lane <=> t < W)
  BY DEF Thread, Lane, TypeOK, TwoWarps
<1>1. CASE Barrier
  <2>1. Pairing /\ \A t \in Thread : pc[t] = "wait"
    BY <1>0, <1>1 DEF WarpInv, Shuffling, Barrier
  <2>2. stride' = W
    BY <1>0, <1>1, <2>1 DEF Barrier, FirstStride, Pairing
  <2>3. /\ \A t \in Thread : pc'[t] = IF t < W THEN "warp" ELSE "finish"
        /\ UNCHANGED <<kernel, sdata, reg, offset, output>>
    BY <1>0, <1>1, <2>2 DEF Barrier, Looping
  <2>4. W % Width = 0 /\ Width' = Width
    BY <1>0, <2>1, <2>3, Distances DEF Pairing, Width
  <2>5. stride' # 0 /\ (W % Width = 0)'
    BY <2>2, <2>4
  <2>6. ASSUME NEW t \in Thread
        PROVE  /\ pc'[t] \in {"warp", "finish"}
               /\ t >= W => pc'[t] = "finish"
               /\ sdata'[t] = Only({t, t + B})
               /\ offset' = W \div 2
    <3>1. t \in Nat /\ pc[t] = "wait"
      BY <1>0, <2>1
    <3>2. sdata[t] = Only({t, t + B}) /\ offset = W \div 2
      BY <2>1, <3>1 DEF Pairing
    <3>3. QED
      BY <2>3, <3>1, <3>2
  <2>7. pc'[0] = "warp"
    BY <1>0, <2>3
  <2>8. Shuffling'
    BY <2>5, <2>6, <2>7 DEF Shuffling
  <2>9. QED
    BY <2>8 DEF WarpInv
<1>2. CASE Shuffle
  <2>1. Shuffling /\ \A t \in Lane : pc[t] = "shuffle"
    BY <1>0, <1>2 DEF WarpInv, Pairing, Shuffle
  <2>2. CASE offset > 0
    <3>1. /\ reg' = [t \in Thread |->
                       IF t \in Lane
                         THEN Add(reg[t], reg[IF t + offset \in Lane THEN t + offset ELSE t])
                         ELSE reg[t]]
          /\ offset' = offset \div 2
          /\ UNCHANGED <<kernel, pc, sdata, stride, output>>
      BY <1>2, <2>2 DEF Shuffle
    <3>2. Width = 2 * offset /\ W % (2 * offset) = 0 /\ offset \in Nat \ {0}
      BY <1>0, <2>1, <2>2 DEF Shuffling, Width
    <3>3. 2 * offset <= W /\ W % offset = 0 /\ Width' = offset
      BY <1>0, <3>1, <3>2, Distances DEF Width
    <3>4. ASSUME NEW t \in Thread, t < offset
          PROVE  reg'[t] = Only(Residue(offset, t))
      <4>1. /\ t \in Lane /\ t + offset \in Lane /\ t + offset \in Thread
            /\ t < Width /\ t + offset < Width /\ t \in 0 .. offset - 1
        BY <1>0, <3>2, <3>3, <3>4 DEF Lane, Thread
      <4>2. reg'[t] = Add(reg[t], reg[t + offset])
        BY <3>1, <4>1
      <4>3. /\ reg[t] = Only(Residue(2 * offset, t))
            /\ reg[t + offset] = Only(Residue(2 * offset, t + offset))
        BY <2>1, <3>2, <4>1 DEF Shuffling
      <4>4. QED
        BY <3>2, <4>1, <4>2, <4>3, ResidueHalves
    <3>5. \A t \in Thread : pc[t] # "warp"
      <4>1. \A t \in Thread : t < W \/ t >= W
        BY <1>0
      <4>2. QED
        BY <1>0, <2>1, <4>1 DEF Shuffling
    <3>6. pc[0] = "shuffle"
      BY <1>0, <2>1
    <3>7. Shuffling'
      BY <2>1, <3>1, <3>3, <3>4, <3>5, <3>6 DEF Shuffling
    <3>8. QED
      BY <3>7 DEF WarpInv
  <2>3. CASE ~(offset > 0)
    <3>1. /\ pc' = [t \in Thread |-> IF t \in Lane THEN "warpstore" ELSE pc[t]]
          /\ UNCHANGED <<kernel, reg, offset, sdata, stride, output>>
      BY <1>2, <2>3 DEF Shuffle
    <3>2. Width = 1 /\ Width' = 1
      BY <1>0, <2>3, <3>1 DEF Width
    <3>3. reg[0] = Only(Index)
      <4>1. pc[0] = "shuffle" /\ 0 < Width
        BY <1>0, <2>1, <3>2
      <4>2. reg[0] = Only(Residue(1, 0))
        BY <1>0, <2>1, <3>2, <4>1 DEF Shuffling
      <4>3. QED
        BY <4>2, ResidueOfAll
    <3>4. \A t \in Thread : pc'[t] = IF t < W THEN "warpstore" ELSE pc[t]
      BY <1>0, <3>1
    <3>5. Shuffling'
      BY <1>0, <2>1, <3>1, <3>2, <3>3, <3>4 DEF Shuffling
    <3>6. QED
      BY <3>5 DEF WarpInv
  <2>4. QED
    BY <2>2, <2>3
<1>3. QED
  BY <1>1, <1>2

LEMMA WarpInvAlways ==
  Spec => [](TwoWarps => WarpInv)
<1>1. Init => WarpInv
  BY DEF Init, WarpInv, Pairing
<1>2. ASSUME TypeOK, TwoWarps => WarpInv, [Next]_vars, TwoWarps'
      PROVE  WarpInv'
  <2>1. TwoWarps /\ WarpInv
    BY <1>2, KernelStays DEF TwoWarps
  <2>2. CASE UNCHANGED vars
    BY <2>1, <2>2 DEF vars, WarpInv, Pairing, Shuffling, Width
  <2>3. QED
    BY <1>2, <2>1, <2>2, WarpThread, WarpTogether DEF Next, Ended
<1>3. QED
  BY <1>1, <1>2, SumTypeCorrect, PTL DEF Spec

(* In the rounds of a v2 kernel the threads below the stride add the cells  *)
(* beyond it.                                                              *)
BelowStride ==
  kernel \in {"v2", "v2_warp"} =>
    \A t \in Thread : pc[t] = "store" => t < stride

LEMMA BelowStrideAlways == Spec => []BelowStride
<1>1. Init => BelowStride
  BY DEF Init, BelowStride
<1>2. ASSUME TypeOK, BelowStride, [Next]_vars
      PROVE  BelowStride'
  <2> SUFFICES ASSUME kernel \in {"v2", "v2_warp"}, NEW u \in Thread, pc'[u] = "store"
               PROVE  u < stride'
    BY <1>2, KernelStays DEF BelowStride
  <2>0. pc \in [Thread -> Label] /\ (pc[u] = "store" => u < stride)
    BY <1>2 DEF TypeOK, BelowStride
  <2>1. ASSUME NEW t \in Thread, Step(t)
        PROVE  u < stride'
    <3>1. CASE Fetch(t)
      BY <2>0, <3>1 DEF Fetch, Active, Goto
    <3>2. CASE ~Fetch(t)
      BY <2>0, <2>1, <3>2
         DEF Step, Load, Store, Skip, WarpFetch, WarpStore, Finish, Goto
    <3>3. QED
      BY <3>1, <3>2
  <2>2. CASE Barrier
    BY <2>2 DEF Barrier
  <2>3. CASE Shuffle
    BY <2>0, <2>3 DEF Shuffle
  <2>4. CASE UNCHANGED vars
    BY <2>0, <2>4 DEF vars
  <2>5. QED
    BY <1>2, <2>1, <2>2, <2>3, <2>4 DEF Next, Ended
<1>3. QED
  BY <1>1, <1>2, SumTypeCorrect, PTL DEF Spec

(* A block of one thread has no rounds.                                    *)
AloneInv ==
  kernel = "v2" /\ B = 1 =>
    /\ pc[0] \in {"load", "wait", "finish", "done"}
    /\ stride = 0
    /\ pc[0] \in {"wait", "finish"} => sdata[0] = Only(Input)
    /\ pc[0] = "done" => output = Only(Input)

LEMMA AloneAlways == Spec => []AloneInv
<1> USE SumAssumption DEF SumAssumption
<1>1. Init => AloneInv
  BY DEF Init, AloneInv, Thread
<1>2. ASSUME TypeOK, AloneInv, [Next]_vars
      PROVE  AloneInv'
  <2> SUFFICES ASSUME kernel = "v2", B = 1
               PROVE  AloneInv'
    BY <1>2, KernelStays DEF AloneInv
  <2>0. /\ Thread = {0} /\ pc \in [Thread -> Label] /\ sdata \in [Thread -> Sum]
        /\ kernel' = kernel /\ Input' = Input /\ Input = {0, 1}
    BY <1>2, KernelStays DEF TypeOK, Input, Thread, Index
  <2>1. ASSUME NEW t \in Thread, Step(t)
        PROVE  AloneInv'
    <3>1. CASE Load(t)
      <4>1. t = 0 /\ {t} \cup ({t + B} \cap Input) = Input
        <5>1. t = 0 /\ t + B = 1
          BY <2>0
        <5>2. QED
          BY <2>0, <5>1
      <4>2. QED
        BY <1>2, <2>0, <3>1, <4>1 DEF Load, Goto, AloneInv
    <3>2. CASE Finish(t)
      BY <1>2, <2>0, <3>2 DEF Finish, Goto, AloneInv
    <3>3. CASE Fetch(t) \/ Store(t) \/ Skip(t) \/ WarpFetch(t) \/ WarpStore(t)
      BY <1>2, <2>0, <3>3 DEF Fetch, Store, Skip, WarpFetch, WarpStore, AloneInv
    <3>4. QED
      BY <2>1, <3>1, <3>2, <3>3 DEF Step
  <2>2. CASE Barrier
    <3>1. stride' = 0
      BY <1>2, <2>2 DEF Barrier, FirstStride, AloneInv
    <3>2. pc'[0] = "finish" /\ sdata' = sdata /\ pc[0] = "wait"
      BY <2>0, <2>2, <3>1 DEF Barrier, Looping
    <3>3. QED
      BY <1>2, <2>0, <3>1, <3>2 DEF AloneInv
  <2>3. CASE Shuffle
    BY <1>2, <2>0, <2>3 DEF Shuffle, Lane, AloneInv
  <2>4. CASE UNCHANGED vars
    BY <1>2, <2>0, <2>4 DEF vars, AloneInv
  <2>5. QED
    BY <1>2, <2>1, <2>2, <2>3, <2>4 DEF Next, Ended
<1>3. QED
  BY <1>1, <1>2, SumTypeCorrect, PTL DEF Spec

(* Threads part only where the code parts them: the lanes of the last warp  *)
(* leave the others behind them for good.                                  *)
Parting ==
  \/ \A t \in Thread : pc[t] \in {"load", "wait"}
  \/ \A t \in Thread : pc[t] \in {"fetch", "store", "wait"}
  \/ \A t \in Thread : pc[t] \in (IF t < W THEN {"warp", "shuffle"} ELSE {"finish", "done"})
  \/ \A t \in Thread : pc[t] \in {"warpstore", "finish", "done"}

LEMMA PartingAlways == Spec => []Parting
<1> USE SumAssumption DEF SumAssumption
<1>1. Init => Parting
  BY DEF Init, Parting
<1>2. ASSUME TypeOK, Parting, [Next]_vars
      PROVE  Parting'
  <2>0. /\ pc \in [Thread -> Label] /\ 0 \in Thread
        /\ \A t \in Thread : t \in Lane <=> t < W
    BY <1>2 DEF TypeOK, Thread, Lane
  <2>1. ASSUME NEW t \in Thread, Load(t) \/ Fetch(t) \/ Store(t) \/ Skip(t)
        PROVE  Parting'
    BY <1>2, <2>0, <2>1 DEF Load, Fetch, Store, Skip, Goto, Parting
  <2>2. ASSUME NEW t \in Thread, WarpFetch(t) \/ WarpStore(t) \/ Finish(t)
        PROVE  Parting'
    BY <1>2, <2>0, <2>2 DEF WarpFetch, WarpStore, Finish, Goto, Parting
  <2>3. CASE Barrier
    <3>1. CASE Looping(stride')
      BY <2>3, <3>1 DEF Barrier, Parting
    <3>2. CASE ~Looping(stride') /\ kernel = "v2_warp"
      BY <2>3, <3>2 DEF Barrier, Parting
    <3>3. CASE ~Looping(stride') /\ kernel # "v2_warp"
      BY <2>3, <3>3 DEF Barrier, Parting
    <3>4. QED
      BY <3>1, <3>2, <3>3
  <2>4. CASE Shuffle
    <3>1. CASE offset > 0
      BY <1>2, <2>4, <3>1 DEF Shuffle, Parting
    <3>2. CASE ~(offset > 0)
      <4>1. /\ pc' = [t \in Thread |-> IF t \in Lane THEN "warpstore" ELSE pc[t]]
            /\ \A t \in Lane : pc[t] = "shuffle"
        BY <2>4, <3>2 DEF Shuffle
      <4>2. 0 \in Lane
        BY <2>0
      <4>3. QED
        BY <1>2, <2>0, <4>1, <4>2 DEF Parting
    <3>3. QED
      BY <3>1, <3>2
  <2>5. CASE UNCHANGED vars
    BY <1>2, <2>5 DEF vars, Parting
  <2>6. QED
    BY <1>2, <2>1, <2>2, <2>3, <2>4, <2>5 DEF Next, Step, Ended
<1>3. QED
  BY <1>1, <1>2, SumTypeCorrect, PTL DEF Spec

(* No kernel but v0 races or ends with a wrong sum, in a block of a power   *)
(* of two of threads: reduce_v1 is right, the first reduce_v2 ends only in  *)
(* a block of one thread, and the second, which needs two warps as          *)
(* warpReduce reads 32 cells beyond its own (sum.cu:78), ends only in a     *)
(* block of exactly two, where the shuffles add up every input once        *)
(* (sum.cu:76-106).  BLOCK_SIZE is 1024.                                    *)
THEOREM SumsAreCorrect ==
  ASSUME PowerOfTwo, "v2_warp" \in Kernels => B >= 2 * W
  PROVE  Spec => [](NoRace /\ Correct)
<1> USE SumAssumption DEF SumAssumption
<1> DEFINE V1Right == kernel = "v1" => NoRace /\ SegmentsAreSummed /\ Correct
<1>0. 0 \in Thread
  BY DEF Thread
<1>1. ASSUME TypeOK, V1Right, BelowStride, Parting PROVE NoRace
  <2> SUFFICES ASSUME kernel \in {"v2", "v2_warp"}, NEW t \in Thread, NEW u \in Thread,
                      t # u, Writes(t) # {}, t \in Reads(u)
               PROVE  FALSE
    BY <1>1 DEF NoRace, TypeOK, Writes
  <2>1. t \in Nat /\ u \in Nat /\ stride \in Nat
    BY <1>1 DEF TypeOK, Thread
  <2>2. \/ pc[t] = "store" /\ u + stride = t
        \/ pc[t] \in {"store", "warpstore"} /\ pc[u] = "warp"
    BY <1>1 DEF Parting, Writes, Reads
  <2>3. CASE pc[t] = "store" /\ u + stride = t
    <3>1. t < stride
      BY <1>1, <2>3 DEF BelowStride
    <3>2. QED
      BY <2>1, <2>3, <3>1
  <2>4. CASE pc[t] \in {"store", "warpstore"} /\ pc[u] = "warp"
    BY <1>1, <2>1, <2>4 DEF Parting
  <2>5. QED
    BY <2>2, <2>3, <2>4
<1>2. ASSUME TypeOK, V1Right, EndlessNeverEnds, AloneInv, TwoWarps => WarpInv
      PROVE  Correct
  <2> SUFFICES ASSUME kernel \in {"v2", "v2_warp"}, Done
               PROVE  output = Only(Input)
    BY <1>2 DEF Correct, TypeOK
  <2>1. pc[0] = "done" /\ ~Endless
    BY <1>0, <1>2 DEF Done, EndlessNeverEnds
  <2>2. CASE kernel = "v2"
    <3>1. B = 1
      BY <2>1, <2>2 DEF Endless
    <3>2. QED
      BY <1>2, <2>1, <2>2, <3>1 DEF AloneInv
  <2>3. CASE kernel = "v2_warp"
    <3>1. B \div 2 <= W /\ B >= 2 * W
      BY <1>2, <2>1, <2>3 DEF Endless, TypeOK
    <3>2. B = 2 * W
      <4>1. Divisor(B)
        <5>1. (1 * B) % B = 0 /\ 1 * B = B
          BY Multiple
        <5>2. QED
          BY <5>1 DEF Divisor
      <4>2. B % 2 = 0
        BY <3>1, <4>1, EvenDivisor
      <4>3. QED
        BY <3>1, <4>2
    <3>3. Pairing \/ Shuffling
      BY <1>2, <2>3, <3>2 DEF TwoWarps, WarpInv
    <3>4. output = Only(Index)
      BY <1>0, <2>1, <3>3 DEF Pairing, Shuffling
    <3>5. Input = Index
      BY <2>3 DEF Input
    <3>6. QED
      BY <3>4, <3>5
  <2>4. QED
    BY <2>2, <2>3
<1>3. QED
  BY <1>1, <1>2, ReduceV1Correct, SumTypeCorrect, V2NeverEnds, BelowStrideAlways,
     PartingAlways, AloneAlways, WarpInvAlways, PTL

-----------------------------------------------------------------------------
(* Some thread is not waiting, or all those that have to come to the        *)
(* barrier or to the shuffle are there.                                    *)
CanGoOn ==
  \/ Done
  \/ \E t \in Thread : pc[t] \in {"load", "fetch", "store", "warp", "warpstore", "finish"}
  \/ \A t \in Thread : pc[t] = "wait"
  \/ \A t \in Lane : pc[t] = "shuffle"

(* No launch of any kernel is ever stuck: the __syncthreads of every round  *)
(* is outside of "if (tid < s)", and no lane of the shuffles waits for a    *)
(* thread that left (sum.cu:16-22, 39-44, 60-65, 76-86, 96-103).            *)
THEOREM SumNeverStuck == Spec => []CanGoOn
<1>1. TypeOK /\ Parting => CanGoOn
  BY DEF TypeOK, Parting, CanGoOn, Done, Lane
<1>2. QED
  BY <1>1, PartingAlways, SumTypeCorrect, PTL

-----------------------------------------------------------------------------
(* How many steps are left                                                 *)

StrideStays == kernel \in {"v2", "v2_warp"} => stride \in {0, B \div 2}

(* At most so many steps of thread t, or of the block or the warp with it.  *)
Left(t) ==
  CASE pc[t] = "load" -> 4 * (2 * B - stride) + W + 7
    [] pc[t] = "fetch" -> 4 * (2 * B - stride) + W + 8
    [] pc[t] = "store" -> 4 * (2 * B - stride) + W + 7
    [] pc[t] = "wait" -> 4 * (2 * B - stride) + W + 6
    [] pc[t] = "warp" -> W + 4
    [] pc[t] = "shuffle" -> offset + 3
    [] pc[t] = "warpstore" -> 2
    [] pc[t] = "finish" -> 1
    [] OTHER -> 0

(* Every step of a launch that is not endless leaves fewer steps to some    *)
(* threads and to none of them more.                                       *)
StepsRunOut ==
  [][~Endless => /\ \A t \in Thread : Left(t) \in Nat /\ Left(t)' \in Nat /\ Left(t)' <= Left(t)
                 /\ \E t \in Thread : Left(t)' < Left(t)]_vars

LEMMA LeftType ==
  ASSUME TypeOK, NEW t \in Thread
  PROVE  Left(t) \in Nat
<1> USE SumAssumption DEF SumAssumption
<1>1. /\ 2 * B - stride \in Nat /\ offset \in Nat
      /\ pc[t] \in Label
  BY DEF TypeOK
<1>2. QED
  BY <1>1 DEF Left, Label

LEMMA StrideStaysAlways == Spec => []StrideStays
<1> USE SumAssumption DEF SumAssumption
<1>1. Init => StrideStays
  BY DEF Init, StrideStays
<1>2. ASSUME StrideStays, [Next]_vars
      PROVE  StrideStays'
  <2>1. kernel' = kernel
    BY <1>2, KernelStays
  <2>2. CASE Barrier
    BY <1>2, <2>1, <2>2 DEF Barrier, StrideStays, FirstStride, NextStride
  <2>3. CASE ~Barrier
    <3>1. stride' = stride
      BY <1>2, <2>3 DEF Next, Step, Load, Fetch, Store, Skip, WarpFetch, WarpStore, Finish,
         Shuffle, Ended, vars
    <3>2. QED
      BY <1>2, <2>1, <3>1 DEF StrideStays
  <2>4. QED
    BY <2>2, <2>3
<1>3. QED
  BY <1>1, <1>2, PTL DEF Spec

(* No block of the kernels that end takes more steps than its size allows:  *)
(* the strides come to the end of the loop, the shuffles to distance zero,  *)
(* and nothing is done again (sum.cu:16-22, 39-44, 76-86).                  *)
THEOREM SumStepsRunOut == Spec => StepsRunOut
<1> USE SumAssumption DEF SumAssumption
<1>1. ASSUME TypeOK, TypeOK', StrideStays, ~Endless, Next, ~UNCHANGED vars
      PROVE  /\ \A t \in Thread : Left(t) \in Nat /\ Left(t)' \in Nat /\ Left(t)' <= Left(t)
             /\ \E t \in Thread : Left(t)' < Left(t)
  <2>1. \A t \in Thread : Left(t) \in Nat
    BY <1>1, LeftType
  <2>2. \A t \in Thread : Left(t)' \in Nat
    <3>1. /\ stride' \in 0 .. 2 * B /\ offset' \in 0 .. W
          /\ pc' \in [Thread -> Label]
      BY <1>1 DEF TypeOK
    <3>2. ASSUME NEW t \in Thread PROVE Left(t)' \in Nat
      <4>1. 2 * B - stride' \in Nat
        <5>1. \A s \in 0 .. 2 * B : 2 * B - s \in Nat
          OBVIOUS
        <5>2. QED
          BY ONLY <3>1, <5>1
      <4>2. W \in Nat /\ offset' \in Nat /\ pc'[t] \in Label
        BY <3>1
      <4>3. QED
        BY <4>1, <4>2 DEF Left, Label
    <3>3. QED
      BY <3>2
  <2>3. /\ pc \in [Thread -> Label] /\ stride \in 0 .. 2 * B /\ stride' \in 0 .. 2 * B
        /\ offset \in 0 .. W /\ offset' \in 0 .. W
        /\ kernel \in {"v0", "v1", "v2", "v2_warp"}
        /\ 0 \in Thread /\ 0 \in Lane
    BY <1>1 DEF TypeOK, Thread, Lane
  <2>4. ASSUME NEW t \in Thread, Step(t)
        PROVE  /\ \A u \in Thread : Left(u)' <= Left(u)
               /\ \E u \in Thread : Left(u)' < Left(u)
    <3>1. UNCHANGED <<stride, offset>> /\ \A u \in Thread \ {t} : pc'[u] = pc[u]
      BY <2>3, <2>4 DEF Step, Load, Fetch, Store, Skip, WarpFetch, WarpStore, Finish, Goto
    <3>2. \/ pc[t] = "load" /\ pc'[t] = "wait"
          \/ pc[t] = "fetch" /\ pc'[t] \in {"store", "wait"}
          \/ pc[t] = "store" /\ pc'[t] = "wait"
          \/ pc[t] = "warp" /\ pc'[t] = "shuffle"
          \/ pc[t] = "warpstore" /\ pc'[t] = "finish"
          \/ pc[t] = "finish" /\ pc'[t] = "done"
      BY <2>3, <2>4 DEF Step, Load, Fetch, Store, Skip, WarpFetch, WarpStore, Finish, Goto
    <3>3. Left(t)' < Left(t)
      BY <2>3, <3>1, <3>2 DEF Left
    <3>4. \A u \in Thread \ {t} : Left(u)' = Left(u)
      BY <3>1 DEF Left
    <3>5. QED
      BY <2>1, <2>2, <3>3, <3>4
  <2>5. CASE Barrier
    <3>1. /\ \A t \in Thread : pc[t] = "wait" /\ offset' = offset
          /\ stride' >= stride
      BY <2>3, <2>5 DEF Barrier, FirstStride, NextStride
    <3>2. CASE Looping(stride')
      <4>1. stride' >= stride + 1
        <5>1. CASE kernel \in {"v0", "v1"}
          BY <2>3, <2>5, <5>1 DEF Barrier, FirstStride, NextStride
        <5>2. CASE kernel \in {"v2", "v2_warp"}
          <6>1. stride' = B \div 2
            <7>1. stride' = IF stride = 0 THEN B \div 2 ELSE stride
              BY <2>5, <5>2 DEF Barrier, FirstStride, NextStride
            <7>2. QED
              BY <1>1, <5>2, <7>1 DEF StrideStays
          <6>2. kernel = "v2" => B = 1 /\ B \div 2 > 0
            BY <1>1, <3>2, <6>1 DEF Looping, Endless
          <6>3. kernel = "v2_warp" => B \div 2 <= W /\ B \div 2 > W
            BY <1>1, <3>2, <6>1 DEF Looping, Endless
          <6>4. QED
            BY <5>2, <6>2, <6>3
        <5>3. QED
          BY <2>3, <5>1, <5>2
      <4>2. \A t \in Thread : pc'[t] = "fetch"
        BY <2>5, <3>2 DEF Barrier
      <4>3. \A t \in Thread : Left(t)' < Left(t)
        BY <2>3, <3>1, <4>1, <4>2 DEF Left
      <4>4. QED
        BY <2>1, <2>2, <2>3, <4>3
    <3>3. CASE ~Looping(stride')
      <4>1. \A t \in Thread : pc'[t] \in {"warp", "finish"}
        BY <2>5, <3>3 DEF Barrier
      <4>2. \A t \in Thread : Left(t)' < Left(t)
        BY <2>3, <3>1, <4>1 DEF Left
      <4>3. QED
        BY <2>1, <2>2, <2>3, <4>2
    <3>4. QED
      BY <2>1, <2>2, <3>2, <3>3
  <2>6. CASE Shuffle
    <3>1. /\ stride' = stride /\ \A t \in Lane : pc[t] = "shuffle"
          /\ \/ offset' < offset /\ pc' = pc
             \/ offset' = offset
                /\ pc' = [t \in Thread |-> IF t \in Lane THEN "warpstore" ELSE pc[t]]
      BY <2>3, <2>6 DEF Shuffle
    <3>2. \A t \in Thread : Left(t)' <= Left(t)
      BY <2>1, <2>2, <2>3, <3>1 DEF Left
    <3>3. Left(0)' < Left(0)
      BY <2>3, <3>1 DEF Left
    <3>4. QED
      BY <2>1, <2>2, <2>3, <3>2, <3>3
  <2>7. QED
    BY <1>1, <2>1, <2>2, <2>4, <2>5, <2>6 DEF Next, Ended
<1>2. QED
  BY <1>1, StrideStaysAlways, SumTypeCorrect, PTL DEF Spec, StepsRunOut

=============================================================================
