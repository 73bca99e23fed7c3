----------------------------- MODULE BlockReduce ------------------------------
(***************************************************************************)
(* One block that adds up a value of each of its threads by warps:         *)
(* block_reduce of cuda_learn/sum/sum.cu (109-130), its twin               *)
(* block_redude_sum of op/kernels/cuda/rmsnorm_kernel.cu (67-82), and the  *)
(* row kernels of that file, row_rmsnorm_f32_v0 (17-37) and _v1 (41-65),   *)
(* whose reductions are CUB's.                                             *)
(*                                                                         *)
(* External are the caller of block_reduce, who calls it twice and meets   *)
(* at a barrier in between, and CUB: a collective whose result is defined  *)
(* in the first thread only, of the warp or of the block.  CUB asks for a  *)
(* TempStorage per warp, and row_rmsnorm_f32_v0 has one for all (line 28): *)
(* the reduction of 32 lanes is done by shuffles and does not touch it, so *)
(* the warps' reductions are taken to be independent.  A sum is the bag of *)
(* the values in it, as in SumBlock.  inplace says that out is in: a       *)
(* layer's output tensor may share the Buffer of its input.  A row may be  *)
(* shorter than the block, or empty.                                       *)
(***************************************************************************)
EXTENDS Integers

CONSTANTS
  Kernels,  \* the kernels that may run
  B,        \* the threads of the block
  W,        \* the threads of a warp
  C,        \* the longest row
  Sizes     \* the lengths of row a launch of each kernel may have

ASSUME ReduceAssumption ==
  /\ Kernels \subseteq {"block_reduce", "block_redude_sum", "rmsnorm_v0", "rmsnorm_v1"}
  /\ B \in Nat \ {0}
  /\ W \in Nat \ {0}
  /\ W % 2 = 0
  /\ B % W = 0
  /\ B \div W <= W
  /\ C \in Nat
  /\ Sizes \in [Kernels -> SUBSET (0 .. C)]

Thread == 0 .. B - 1

Warp == 0 .. (B \div W) - 1

Lanes(w) == {t \in Thread : t \div W = w}

Column == 0 .. C - 1

Junk == -1

(* What may be in a sum: an element of the row, what a thread brings to one *)
(* of two calls of block_reduce, or something else.                        *)
Value == Column \cup (0 .. 2 * B - 1) \cup {Junk}

Sum == [Value -> 0 .. 2]

Only(S) == [k \in Value |-> IF k \in S THEN 1 ELSE 0]

Capped(n) == IF n > 2 THEN 2 ELSE n

Add(x, y) == [k \in Value |-> Capped(x[k] + y[k])]

VARIABLES
  kernel,   \* the kernel that runs
  inplace,  \* whether out and in are one array
  size,     \* the length of the row
  pc,       \* what each thread does next
  col,      \* i of the loop each thread is in
  part,     \* val, or sum, of each thread
  total,    \* the row's sum as each thread has it
  call,     \* the call of block_reduce each thread is in
  dist,     \* the distance, or mask, of each warp's next shuffle
  shared,   \* warpSum; its first cell is shared_val in rmsnorm_v1
  out       \* the row of out: "none", "out", or "bad"

vars == <<kernel, inplace, size, pc, col, part, total, call, dist, shared, out>>

Row == kernel \in {"rmsnorm_v0", "rmsnorm_v1"}

Elements == 0 .. size - 1

(* Mutant of First: i = threadIdx.x in v0 as well.                         *)
FirstByThread(t) == t

(* In v0 each warp does the whole row.                                     *)
First(t) == IF kernel = "rmsnorm_v0" THEN t % W ELSE t

Stride == IF kernel = "rmsnorm_v0" THEN W ELSE B

(* The value a thread brings to a call.                                    *)
Brings(t, c) == Only({(c - 1) * B + t})

Init ==
  /\ kernel \in Kernels
  /\ inplace \in (IF Row THEN BOOLEAN ELSE {FALSE})
  /\ size \in Sizes[kernel]
  /\ pc = [t \in Thread |-> IF Row THEN "gather" ELSE "shuffle"]
  /\ col = [t \in Thread |-> First(t)]
  /\ part = [t \in Thread |-> IF Row THEN Only({}) ELSE Brings(t, 1)]
  /\ total = [t \in Thread |-> Only({Junk})]
  /\ call = [t \in Thread |-> 1]
  /\ dist = [w \in Warp |-> W \div 2]
  /\ shared = [w \in Warp |-> Only({Junk})]
  /\ out = [i \in Column |-> "none"]

Goto(S, label) == pc' = [t \in Thread |-> IF t \in S THEN label ELSE pc[t]]

(* What in[i] is to its reader: the input, until it is overwritten.        *)
Intact(i) == inplace => out[i] = "none"

-----------------------------------------------------------------------------
(* The row kernels: gather, reduce, scale *)

(* Mutant of Gather: i += warpSize in v1 as well.                          *)
GatherByWarp(t) ==
  /\ pc[t] = "gather"
  /\ col[t] < size
  /\ part' = [part EXCEPT ![t] = Add(@, Only({IF Intact(col[t]) THEN col[t] ELSE Junk}))]
  /\ col' = [col EXCEPT ![t] = @ + W]
  /\ UNCHANGED <<kernel, inplace, size, pc, total, call, dist, shared, out>>

Gather(t) ==
  /\ pc[t] = "gather"
  /\ col[t] < size
  /\ part' = [part EXCEPT ![t] = Add(@, Only({IF Intact(col[t]) THEN col[t] ELSE Junk}))]
  /\ col' = [col EXCEPT ![t] = @ + Stride]
  /\ UNCHANGED <<kernel, inplace, size, pc, total, call, dist, shared, out>>

Gathered(t) ==
  /\ pc[t] = "gather"
  /\ col[t] >= size
  /\ Goto({t}, "collect")
  /\ UNCHANGED <<kernel, inplace, size, col, part, total, call, dist, shared, out>>

(* The sum of the parts of the threads of S: what none has is not in it,    *)
(* what exactly one has once is in it once.                                *)
SumOver(S) ==
  [k \in Value |->
    IF \A t \in S : part[t][k] = 0 THEN 0
    ELSE IF \E t \in S : part[t][k] = 1 /\ \A u \in S \ {t} : part[u][k] = 0 THEN 1
    ELSE 2]

(* cub::WarpReduce: every lane scales by what it gets, lane 0 by the sum.   *)
WarpReduce(w) ==
  /\ kernel = "rmsnorm_v0"
  /\ \A t \in Lanes(w) : pc[t] = "collect"
  /\ total' = [t \in Thread |->
                IF t \notin Lanes(w) THEN total[t]
                ELSE IF t = w * W THEN SumOver(Lanes(w)) ELSE Only({Junk})]
  /\ col' = [t \in Thread |-> IF t \in Lanes(w) THEN First(t) ELSE col[t]]
  /\ Goto(Lanes(w), "scale")
  /\ UNCHANGED <<kernel, inplace, size, part, call, dist, shared, out>>

(* cub::BlockReduce: thread 0 gets the sum.                                *)
CubBlockReduce ==
  /\ kernel = "rmsnorm_v1"
  /\ \A t \in Thread : pc[t] = "collect"
  /\ part' = [t \in Thread |-> IF t = 0 THEN SumOver(Thread) ELSE Only({Junk})]
  /\ Goto(Thread, "publish")
  /\ UNCHANGED <<kernel, inplace, size, col, total, call, dist, shared, out>>

(* The factor is right if the sum is, and the element it is applied to.     *)
Scale(t) ==
  /\ pc[t] = "scale"
  /\ col[t] < size
  /\ out' = [out EXCEPT ![col[t]] =
               IF total[t] = Only(Elements) /\ Intact(col[t]) THEN "out" ELSE "bad"]
  /\ col' = [col EXCEPT ![t] = @ + Stride]
  /\ UNCHANGED <<kernel, inplace, size, pc, part, total, call, dist, shared>>

Scaled(t) ==
  /\ pc[t] = "scale"
  /\ col[t] >= size
  /\ Goto({t}, "done")
  /\ UNCHANGED <<kernel, inplace, size, col, part, total, call, dist, shared, out>>

-----------------------------------------------------------------------------
(* The reductions by warps *)

(* __shfl_down_sync, and __shfl_xor_sync with a power of two.              *)
Source(t, w, d) ==
  IF kernel = "block_redude_sum"
    THEN IF (t \div d) % 2 = 0 THEN t + d ELSE t - d
    ELSE IF t + d \in Lanes(w) THEN t + d ELSE t

(* Mutant of NextDist: no reduction halves it.                             *)
NextDistSame(d) == d

(* "mask >> 1" (rmsnorm_kernel.cu:10) leaves the mask as it is.            *)
NextDist(d) == IF kernel = "block_redude_sum" THEN d ELSE d \div 2

(* The lanes of a warp shuffle together, until the distance is zero.        *)
Shuffle(w) ==
  \E label \in {"shuffle", "reshuffle"} :
    /\ \A t \in Lanes(w) : pc[t] = label
    /\ IF dist[w] > 0
         THEN /\ part' = [t \in Thread |-> IF t \in Lanes(w)
                           THEN Add(part[t], part[Source(t, w, dist[w])]) ELSE part[t]]
              /\ dist' = [dist EXCEPT ![w] = NextDist(@)]
              /\ UNCHANGED pc
         ELSE /\ Goto(Lanes(w), IF label = "shuffle" THEN "publish" ELSE "return")
              /\ dist' = [dist EXCEPT ![w] = W \div 2]
              /\ UNCHANGED part
    /\ UNCHANGED <<kernel, inplace, size, col, total, call, shared, out>>

Publish(t) ==
  /\ pc[t] = "publish"
  /\ shared' = IF IF Row THEN t = 0 ELSE t % W = 0
                 THEN [shared EXCEPT ![t \div W] = part[t]] ELSE shared
  /\ Goto({t}, "wait")
  /\ UNCHANGED <<kernel, inplace, size, col, part, total, call, dist, out>>

(* Mutant of AfterPublish: no __syncthreads after the cells are written.    *)
AfterPublishNoSync(t) ==
  /\ pc[t] = "wait"
  /\ Goto({t}, "read")
  /\ UNCHANGED <<kernel, inplace, size, col, part, total, call, dist, shared, out>>

(* The __syncthreads after the cells are written.                          *)
AfterPublish(t) ==
  /\ \A u \in Thread : pc[u] = "wait"
  /\ Goto(Thread, "read")
  /\ UNCHANGED <<kernel, inplace, size, col, part, total, call, dist, shared, out>>

(* Mutant of Read: a lane without a cell keeps its part instead of 0.       *)
ReadKeeping(t) ==
  /\ pc[t] = "read"
  /\ IF Row
       THEN /\ total' = [total EXCEPT ![t] = shared[0]]
            /\ col' = [col EXCEPT ![t] = First(t)]
            /\ Goto({t}, "scale")
            /\ UNCHANGED part
       ELSE /\ part' = IF t \in Warp THEN [part EXCEPT ![t] = shared[t]] ELSE part
            /\ Goto({t}, IF t < W THEN "reshuffle" ELSE "return")
            /\ UNCHANGED <<total, col>>
  /\ UNCHANGED <<kernel, inplace, size, call, dist, shared, out>>

(* v1 reads shared_val; in block_reduce warp 0 goes on with the cells, the  *)
(* others return what they have.                                           *)
Read(t) ==
  /\ pc[t] = "read"
  /\ IF Row
       THEN /\ total' = [total EXCEPT ![t] = shared[0]]
            /\ col' = [col EXCEPT ![t] = First(t)]
            /\ Goto({t}, "scale")
            /\ UNCHANGED part
       ELSE /\ part' = IF t >= W THEN part
                       ELSE [part EXCEPT ![t] = IF t \in Warp THEN shared[t] ELSE Only({})]
            /\ Goto({t}, IF t < W THEN "reshuffle" ELSE "return")
            /\ UNCHANGED <<total, col>>
  /\ UNCHANGED <<kernel, inplace, size, call, dist, shared, out>>

(* The caller calls block_reduce again, with another value.                *)
Return(t) ==
  /\ pc[t] = "return"
  /\ IF call[t] = 1
       THEN /\ call' = [call EXCEPT ![t] = 2]
            /\ part' = [part EXCEPT ![t] = Brings(t, 2)]
            /\ Goto({t}, "fence")
       ELSE /\ Goto({t}, "done")
            /\ UNCHANGED <<call, part>>
  /\ UNCHANGED <<kernel, inplace, size, col, total, dist, shared, out>>

Fence ==
  /\ \A t \in Thread : pc[t] = "fence"
  /\ Goto(Thread, "shuffle")
  /\ UNCHANGED <<kernel, inplace, size, col, part, total, call, dist, shared, out>>

Done == \A t \in Thread : pc[t] = "done"

(* The kernel has ended.                                                   *)
Ended == Done /\ UNCHANGED vars

Step(t) ==
  \/ Gather(t)
  \/ Gathered(t)
  \/ Scale(t)
  \/ Scaled(t)
  \/ Publish(t)
  \/ AfterPublish(t)
  \/ Read(t)
  \/ Return(t)

Next ==
  \/ \E t \in Thread : Step(t)
  \/ \E w \in Warp : WarpReduce(w) \/ Shuffle(w)
  \/ CubBlockReduce
  \/ Fence
  \/ Ended

Spec == Init /\ [][Next]_vars

(* The GPU does not stop a resident block while something in it can run; in *)
(* what order, it does not say.                                            *)
FairSpec == Spec /\ WF_vars(Next)

-----------------------------------------------------------------------------
Label == {"gather", "collect", "scale", "shuffle", "reshuffle", "publish", "wait",
          "read", "return", "fence", "done"}

(* The variables keep their shape, and the counters their bounds.          *)
TypeOK ==
  /\ kernel \in Kernels
  /\ inplace \in BOOLEAN
  /\ size \in Sizes[kernel]
  /\ pc \in [Thread -> Label]
  /\ col \in [Thread -> 0 .. B + C]
  /\ part \in [Thread -> Sum]
  /\ total \in [Thread -> Sum]
  /\ call \in [Thread -> 1 .. 2]
  /\ dist \in [Warp -> 0 .. W]
  /\ shared \in [Warp -> Sum]
  /\ out \in [Column -> {"none", "out", "bad"}]

(* A cell of shared memory is written only when no thread has still to     *)
(* read what it held or holds: in the second call of block_reduce the      *)
(* cells are those of the first (sum.cu:117-124), in v1 every thread reads *)
(* what thread 0 wrote (rmsnorm_kernel.cu:55-59).                          *)
NoRace ==
  \A t, u \in Thread : pc[t] = "publish" /\ (Row \/ u < W) => pc[u] # "read"

(* What thread 0 gets from block_reduce is the sum of the block's values   *)
(* of that call, none of the other's.                                      *)
ReturnsSum ==
  kernel = "block_reduce" /\ pc[0] = "return" =>
    part[0] = Only({(call[0] - 1) * B + t : t \in Thread})

(* v1 normalises the row with the row's sum, in place as well: no element  *)
(* is overwritten before all threads have gathered.                        *)
RowIsNormalised ==
  kernel = "rmsnorm_v1" /\ Done => \A i \in Elements : out[i] = "out"

(* v0 uses the result of a warp's reduction in all lanes although only     *)
(* lane 0 has it (rmsnorm_kernel.cu:31-36): what is sure to be right is    *)
(* one element in warpSize, however many warps do the same work.           *)
LaneZeroIsNormalised ==
  kernel = "rmsnorm_v0" /\ ~inplace /\ Done =>
    \A i \in Elements : i % W = 0 => out[i] = "out"

(* No lane leaves the loop of warp_reduce_sum.                             *)
NeverReturns ==
  kernel = "block_redude_sum" => \A t \in Thread : pc[t] = "shuffle"

(* Exactly the other kernels end: all come to every barrier, shuffle and    *)
(* collective, also the threads without a column or a cell.                *)
Terminates == []NeverReturns /\ (kernel # "block_redude_sum" => <>Done)
=============================================================================
