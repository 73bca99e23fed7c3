------------------------------ MODULE SumBlock -------------------------------
(***************************************************************************)
(* One block of the reduction kernels of cuda_learn/sum/sum.cu: the        *)
(* threads load the input into shared memory and add it up pairwise, in    *)
(* rounds separated by __syncthreads, until sdata[0] is the block's sum.   *)
(*                                                                         *)
(* kernel says which kernel runs: "v0" (lines 7-26), "v1" (31-48), "v2"     *)
(* (52-69) or "v2_warp", the second one called reduce_v2 (88-106), whose   *)
(* last additions are shuffles of one warp (76-86).                        *)
(*                                                                         *)
(* A float is the bag of the inputs added up in it, with counts above 2    *)
(* taken as 2: a sum is right exactly when it has every input once.  Cells *)
(* of sdata no thread writes are uninitialised or beyond the array: their  *)
(* value is Junk, which spoils every sum it enters.                        *)
(***************************************************************************)
EXTENDS Integers

CONSTANTS
  Kernels,  \* the kernels that may run
  B,        \* blockDim.x
  W         \* the threads of a warp (32)

ASSUME SumAssumption ==
  /\ Kernels \subseteq {"v0", "v1", "v2", "v2_warp"}
  /\ B \in Nat \ {0}
  /\ W \in Nat \ {0}

Thread == 0 .. B - 1

Junk == -1

Index == 0 .. 2 * B - 1

Sum == [Index \cup {Junk} -> 0 .. 2]

Only(S) == [k \in Index \cup {Junk} |-> IF k \in S THEN 1 ELSE 0]

Add(x, y) ==
  [k \in Index \cup {Junk} |-> IF x[k] + y[k] > 2 THEN 2 ELSE x[k] + y[k]]

VARIABLES
  kernel,   \* the kernel that runs
  pc,       \* what each thread does next
  sdata,    \* the shared array, one cell per thread
  reg,      \* the value each thread is about to store
  stride,   \* s of the reduction loop, the same in every thread
  offset,   \* the distance of the warp's next shuffle
  output    \* g_odata[blockIdx.x]

vars == <<kernel, pc, sdata, reg, stride, offset, output>>

Init ==
  /\ kernel \in Kernels
  /\ pc = [t \in Thread |-> "load"]
  /\ sdata = [t \in Thread |-> Only({Junk})]
  /\ reg = [t \in Thread |-> Only({Junk})]
  /\ stride = 0
  /\ offset = W \div 2
  /\ output = Only({Junk})

(* The inputs of the block: v0 reads one per thread, the others two.        *)
Input == {k \in Index : kernel = "v0" => k < B}

Goto(t, label) == pc' = [pc EXCEPT ![t] = label]

(* Reading shared memory, inside the cells the block wrote or not.         *)
Cell(i) == IF i \in Thread THEN sdata[i] ELSE Only({Junk})

-----------------------------------------------------------------------------
(* Mutant of Load: the second input is forgotten.                          *)
LoadFirst(t) ==
  /\ pc[t] = "load"
  /\ sdata' = [sdata EXCEPT ![t] = Only({t})]
  /\ Goto(t, "wait")
  /\ UNCHANGED <<kernel, reg, stride, offset, output>>

Load(t) ==
  /\ pc[t] = "load"
  /\ sdata' = [sdata EXCEPT ![t] = Only({t} \cup ({t + B} \cap Input))]
  /\ Goto(t, "wait")
  /\ UNCHANGED <<kernel, reg, stride, offset, output>>

(* Mutant of Active: every multiple of the stride adds.                    *)
ActiveAtStride(t) == t % stride = 0

(* The condition under which a thread adds in a round.                     *)
Active(t) ==
  CASE kernel = "v0" -> t % (2 * stride) # 0
    [] kernel = "v1" -> t % (2 * stride) = 0
    [] OTHER -> t < stride

(* sdata[tid] += sdata[tid + s] reads two cells and writes one: other      *)
(* threads may run in between.                                             *)
Fetch(t) ==
  /\ pc[t] = "fetch"
  /\ Active(t)
  /\ reg' = [reg EXCEPT ![t] = Add(sdata[t], Cell(t + stride))]
  /\ Goto(t, "store")
  /\ UNCHANGED <<kernel, sdata, stride, offset, output>>

Store(t) ==
  /\ pc[t] = "store"
  /\ sdata' = [sdata EXCEPT ![t] = reg[t]]
  /\ Goto(t, "wait")
  /\ UNCHANGED <<kernel, reg, stride, offset, output>>

Skip(t) ==
  /\ pc[t] = "fetch"
  /\ ~Active(t)
  /\ Goto(t, "wait")
  /\ UNCHANGED <<kernel, sdata, reg, stride, offset, output>>

(* s as the for loop starts (stride = 0) and as it advances; the statement *)
(* s >> 1 of both v2 kernels has no effect.                                *)
FirstStride == IF kernel \in {"v0", "v1"} THEN 1 ELSE B \div 2

(* Mutant of NextStride: s >> 1 in place of s *= 2.                        *)
NextStrideSame(s) == s

NextStride(s) == IF kernel \in {"v0", "v1"} THEN 2 * s ELSE s

Looping(s) ==
  CASE kernel \in {"v0", "v1"} -> s < B
    [] kernel = "v2" -> s > 0
    [] kernel = "v2_warp" -> s > W

(* Every thread has reached __syncthreads: all go on, into the next round   *)
(* or out of the loop.                                                     *)
Barrier ==
  /\ \A t \in Thread : pc[t] = "wait"
  /\ stride' = IF stride = 0 THEN FirstStride ELSE NextStride(stride)
  /\ pc' = [t \in Thread |->
             IF Looping(stride') THEN "fetch"
             ELSE IF kernel = "v2_warp" /\ t < W THEN "warp"
             ELSE "finish"]
  /\ UNCHANGED <<kernel, sdata, reg, offset, output>>

(* Mutant of WarpFetch: the last 32 cells are not added.                   *)
WarpFetchOne(t) ==
  /\ pc[t] = "warp"
  /\ reg' = [reg EXCEPT ![t] = sdata[t]]
  /\ Goto(t, "shuffle")
  /\ UNCHANGED <<kernel, sdata, stride, offset, output>>

(* warpReduce: a lane reads its two cells, the lanes shuffle, and each      *)
(* stores the value it ends with.                                          *)
WarpFetch(t) ==
  /\ pc[t] = "warp"
  /\ reg' = [reg EXCEPT ![t] = Add(sdata[t], Cell(t + W))]
  /\ Goto(t, "shuffle")
  /\ UNCHANGED <<kernel, sdata, stride, offset, output>>

Lane == {t \in Thread : t < W}

(* __shfl_down_sync waits for all the lanes of the warp; a lane whose       *)
(* source is beyond the warp gets its own value.                           *)
Shuffle ==
  /\ \A t \in Lane : pc[t] = "shuffle"
  /\ Lane # {}
  /\ IF offset > 0
       THEN /\ reg' = [t \in Thread |->
                        IF t \in Lane
                          THEN Add(reg[t], reg[IF t + offset \in Lane THEN t + offset ELSE t])
                          ELSE reg[t]]
            /\ offset' = offset \div 2
            /\ UNCHANGED pc
       ELSE /\ pc' = [t \in Thread |-> IF t \in Lane THEN "warpstore" ELSE pc[t]]
            /\ UNCHANGED <<reg, offset>>
  /\ UNCHANGED <<kernel, sdata, stride, output>>

WarpStore(t) ==
  /\ pc[t] = "warpstore"
  /\ sdata' = [sdata EXCEPT ![t] = reg[t]]
  /\ Goto(t, "finish")
  /\ UNCHANGED <<kernel, reg, stride, offset, output>>

Finish(t) ==
  /\ pc[t] = "finish"
  /\ output' = IF t = 0 THEN sdata[0] ELSE output
  /\ Goto(t, "done")
  /\ UNCHANGED <<kernel, sdata, reg, stride, offset>>

(* The kernel has ended.                                                   *)
Ended ==
  /\ \A t \in Thread : pc[t] = "done"
  /\ UNCHANGED vars

Step(t) ==
  \/ Load(t)
  \/ Fetch(t)
  \/ Store(t)
  \/ Skip(t)
  \/ WarpFetch(t)
  \/ WarpStore(t)
  \/ Finish(t)

Next == (\E t \in Thread : Step(t)) \/ Barrier \/ Shuffle \/ Ended

Spec == Init /\ [][Next]_vars

(* The GPU runs every thread of a resident block until it ends or waits.    *)
FairSpec ==
  /\ Spec
  /\ \A t \in Thread : WF_vars(Step(t))
  /\ WF_vars(Barrier)
  /\ WF_vars(Shuffle)

-----------------------------------------------------------------------------
Label == {"load", "wait", "fetch", "store", "warp", "shuffle", "warpstore",
          "finish", "done"}

(* The variables keep their shape, and the stride and the shuffle distance  *)
(* their bounds.                                                           *)
TypeOK ==
  /\ kernel \in Kernels
  /\ pc \in [Thread -> Label]
  /\ sdata \in [Thread -> Sum]
  /\ reg \in [Thread -> Sum]
  /\ stride \in 0 .. 2 * B
  /\ offset \in 0 .. W
  /\ output \in Sum

(* The cells of sdata a thread's next step writes, and those it reads.      *)
Writes(t) == IF pc[t] \in {"load", "store", "warpstore"} THEN {t} ELSE {}

Reads(t) ==
  CASE pc[t] = "fetch" /\ Active(t) -> {t, t + stride}
    [] pc[t] = "warp" -> {t, t + W}
    [] pc[t] = "finish" /\ t = 0 -> {0}
    [] OTHER -> {}

(* No data race from the load of the input to the store of the result, in   *)
(* the rounds or in warpReduce: the cell a thread is about to write is not  *)
(* one another thread has still to read (sum.cu:36-46, 57-67, 76-86,       *)
(* 93-104).                                                                *)
NoRace ==
  kernel # "v0" => \A t, u \in Thread : t # u => Writes(t) \cap Reads(u) = {}

Done == \A t \in Thread : pc[t] = "done"

(* What the kernels are for: when the block has ended, its output has every *)
(* input of the block, once.                                               *)
Correct == kernel # "v0" /\ Done => output = Only(Input)

(* v0 has no "== 0" in its condition (sum.cu:17): whatever the other        *)
(* threads add up and however they race, thread 0 stays idle and the       *)
(* block's result is its first input.                                      *)
V0KeepsFirst == kernel = "v0" /\ Done => output = Only({0})

(* "s >> 1" changes nothing (sum.cu:60, 96): no thread of a block that      *)
(* enters the loop of a v2 kernel gets behind it.                          *)
Endless ==
  \/ kernel = "v2" /\ B > 1
  \/ kernel = "v2_warp" /\ B \div 2 > W

EndlessNeverEnds == Endless => \A t \in Thread : pc[t] \notin {"warp", "finish", "done"}

(* Between two rounds of v1 no input is lost or counted twice in the cells  *)
(* the next round reads: the cells at multiples of the stride hold the sums *)
(* of consecutive segments of the input (sum.cu:39-44).                    *)
Segment(t, w) == (t .. t + w - 1) \cup (t + B .. t + B + w - 1)

SegmentsAreSummed ==
  kernel = "v1" /\ (\A t \in Thread : pc[t] = "fetch") =>
    \A t \in Thread : t % stride = 0 => sdata[t] = Only(Segment(t, stride))

(* Exactly the other kernels end: every thread gets through every barrier,  *)
(* and the rounds come to an end, unless the stride stays as it is.        *)
Terminates == []EndlessNeverEnds /\ (~Endless => <>Done)
=============================================================================
