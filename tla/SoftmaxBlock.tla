----------------------------- MODULE SoftmaxBlock -----------------------------
(***************************************************************************)
(* One block, that is one row, of the softmax kernels of cuda_learn/       *)
(* softmax/softmax.cu: kernel1 (lines 3-29) gives the row to one thread;   *)
(* of those whose threads work together kernel2 (35-89) reduces in shared  *)
(* memory, kernel3 (109-142) in one warp, kernel4 (147-213) in its warps   *)
(* and then in thread 0.                                                   *)
(*                                                                         *)
(* Each makes two passes over the row: one finds the maximum and writes    *)
(* exp(x - max) to the row of out, one sums that row up and divides it by  *)
(* the sum.  A maximum or a sum is the bag of the columns that went into   *)
(* it, with counts above 2 taken as 2: it is right when it is Whole.  Junk *)
(* stands for a value that is not what the reader took it for.             *)
(***************************************************************************)
EXTENDS Integers

CONSTANTS
  Kernels,  \* the kernels that may run
  B,        \* the block size of kernel2 and kernel4
  W,        \* the threads of a warp, and the block size of kernel3
  C         \* the columns of the row

ASSUME SoftmaxAssumption ==
  /\ Kernels \subseteq {"kernel1", "kernel2", "kernel3", "kernel4"}
  /\ B \in Nat \ {0}
  /\ W \in Nat \ {0, 1}
  /\ W <= B
  /\ B % W = 0
  /\ C \in Nat

Thread == 0 .. B - 1

Warp == 0 .. (B \div W) - 1

Column == 0 .. C - 1

Junk == -1

Value == [Column \cup {Junk} -> 0 .. 2]

Only(S) == [k \in Column \cup {Junk} |-> IF k \in S THEN 1 ELSE 0]

Whole == Only(Column)

(* fmaxf in the first pass, + in the second.                               *)
Combine(p, x, y) ==
  [k \in Column \cup {Junk} |->
     IF p = "max" THEN (IF x[k] > y[k] THEN x[k] ELSE y[k])
     ELSE IF x[k] + y[k] > 2 THEN 2 ELSE x[k] + y[k]]

VARIABLES
  kernel,  \* the kernel that runs
  pc,      \* what each thread does next
  pass,    \* the pass each thread is in: "max" or "sum"
  col,     \* i of the loop each thread is in
  part,    \* maxval and sumval, and val, of each thread
  total,   \* offset and sum, as each thread has read them
  cell,    \* the element each thread is about to divide
  shared,  \* the shared array
  row,     \* the row of out: "none", "exp", "out" (divided once), or "bad"
  stride,  \* the round of the reduction in shared memory, 0 outside of it
  dist     \* the distance of each warp's next shuffle

vars == <<kernel, pc, pass, col, part, total, cell, shared, row, stride, dist>>

(* blockDim.x: main launches kernel1 with one thread, kernel3 with one warp. *)
Dim == CASE kernel = "kernel1" -> 1 [] kernel = "kernel3" -> W [] OTHER -> B

Running == {t \in Thread : t < Dim}

Lanes(w) == {t \in Thread : t \div W = w}

Init ==
  /\ kernel \in Kernels
  /\ pc = [t \in Thread |-> IF t \in Running THEN "gather" ELSE "done"]
  /\ pass = [t \in Thread |-> "max"]
  /\ col = [t \in Thread |-> t]
  /\ part = [t \in Thread |-> Only({})]
  /\ total = [t \in Thread |-> Only({Junk})]
  /\ cell = [t \in Thread |-> "none"]
  /\ shared = [t \in Thread |-> Only({Junk})]
  /\ row = [i \in Column |-> "none"]
  /\ stride = 0
  /\ dist = [w \in Warp |-> W \div 2]

Goto(t, label) == pc' = [pc EXCEPT ![t] = label]

Advance(t, step) == col' = [col EXCEPT ![t] = @ + step]

-----------------------------------------------------------------------------
(* Each thread's own columns *)

(* What column i gives to the pass of t: the input is always there, the    *)
(* row of out has to hold the exponential.                                 *)
Term(t, i) == IF pass[t] = "max" \/ row[i] = "exp" THEN Only({i}) ELSE Only({Junk})

(* Mutant of Gather: the loop advances by one.                             *)
GatherAll(t) ==
  /\ pc[t] = "gather"
  /\ col[t] < C
  /\ part' = [part EXCEPT ![t] = Combine(pass[t], @, Term(t, col[t]))]
  /\ Advance(t, 1)
  /\ UNCHANGED <<kernel, pc, pass, total, cell, shared, row, stride, dist>>

Gather(t) ==
  /\ pc[t] = "gather"
  /\ col[t] < C
  /\ part' = [part EXCEPT ![t] = Combine(pass[t], @, Term(t, col[t]))]
  /\ Advance(t, Dim)
  /\ UNCHANGED <<kernel, pc, pass, total, cell, shared, row, stride, dist>>

Gathered(t) ==
  /\ pc[t] = "gather"
  /\ kernel # "kernel1"
  /\ col[t] >= C
  /\ Goto(t, IF kernel = "kernel2" THEN "publish" ELSE "shuffle")
  /\ UNCHANGED <<kernel, pass, col, part, total, cell, shared, row, stride, dist>>

(* kernel1: the thread has the maximum of the row, ...                     *)
GatheredAlone(t) ==
  /\ pc[t] = "gather"
  /\ kernel = "kernel1"
  /\ col[t] >= C
  /\ total' = [total EXCEPT ![t] = part[t]]
  /\ part' = [part EXCEPT ![t] = Only({})]
  /\ pass' = [pass EXCEPT ![t] = "sum"]
  /\ col' = [col EXCEPT ![t] = 0]
  /\ Goto(t, "expadd")
  /\ UNCHANGED <<kernel, cell, shared, row, stride, dist>>

(* ... adds each exponential to the sum as it writes it, ...               *)
ExpAdd(t) ==
  /\ pc[t] = "expadd"
  /\ col[t] < C
  /\ row' = [row EXCEPT ![col[t]] = IF total[t] = Whole THEN "exp" ELSE "bad"]
  /\ part' = [part EXCEPT ![t] =
               Combine("sum", @, Only({IF row'[col[t]] = "exp" THEN col[t] ELSE Junk}))]
  /\ Advance(t, 1)
  /\ UNCHANGED <<kernel, pc, pass, total, cell, shared, stride, dist>>

(* ... and divides by it.                                                  *)
ExpAdded(t) ==
  /\ pc[t] = "expadd"
  /\ col[t] >= C
  /\ total' = [total EXCEPT ![t] = part[t]]
  /\ col' = [col EXCEPT ![t] = 0]
  /\ Goto(t, "load")
  /\ UNCHANGED <<kernel, pass, part, cell, shared, row, stride, dist>>

-----------------------------------------------------------------------------
(* The reduction *)

(* warpReduceMax and warpReduceSum: the lanes shuffle together; kernel3     *)
(* then hands lane 0's value to all of them.                               *)
Shuffle(w) ==
  /\ \A t \in Lanes(w) : pc[t] = "shuffle"
  /\ IF dist[w] > 0
       THEN /\ part' = [t \in Thread |->
                 IF t \in Lanes(w)
                   THEN Combine(pass[t], part[t],
                                part[IF t + dist[w] \in Lanes(w) THEN t + dist[w] ELSE t])
                   ELSE part[t]]
            /\ dist' = [dist EXCEPT ![w] = @ \div 2]
            /\ UNCHANGED <<pc, col, total>>
       ELSE /\ dist' = [dist EXCEPT ![w] = W \div 2]
            /\ IF kernel = "kernel3"
                 THEN /\ total' = [t \in Thread |->
                                    IF t \in Lanes(w) THEN part[w * W] ELSE total[t]]
                      /\ col' = [t \in Thread |-> IF t \in Lanes(w) THEN t ELSE col[t]]
                      /\ pc' = [t \in Thread |->
                                 IF t \notin Lanes(w) THEN pc[t]
                                 ELSE IF pass[t] = "max" THEN "exp" ELSE "load"]
                 ELSE /\ pc' = [t \in Thread |->
                                 IF t \in Lanes(w) THEN "publish" ELSE pc[t]]
                      /\ UNCHANGED <<col, total>>
            /\ UNCHANGED part
  /\ UNCHANGED <<kernel, pass, cell, shared, row, stride>>

(* Mutant of Slot: one array for maxvals and sumvals.                       *)
SlotShared(t, k) == k

(* The cell k of the array the pass of t works in: kernel4 has sumvals      *)
(* behind maxvals.                                                         *)
Slot(t, k) == IF kernel = "kernel4" /\ pass[t] = "sum" THEN (B \div W) + k ELSE k

(* In kernel4 lane 0 of each warp publishes, in kernel2 every thread.       *)
Publish(t) ==
  /\ pc[t] = "publish"
  /\ shared' = IF kernel = "kernel2" THEN [shared EXCEPT ![t] = part[t]]
               ELSE IF t % W = 0 THEN [shared EXCEPT ![Slot(t, t \div W)] = part[t]]
               ELSE shared
  /\ Goto(t, "wait")
  /\ UNCHANGED <<kernel, pass, col, part, total, cell, row, stride, dist>>

(* Mutant of NextStride: it keeps its value, as in sum.cu:60.               *)
NextStrideKeeps ==
  IF stride = 0 THEN (IF kernel = "kernel2" THEN B \div 2 ELSE 1) ELSE stride

(* kernel2 halves the stride, kernel4 has one round, of thread 0.           *)
NextStride ==
  IF stride = 0 THEN (IF kernel = "kernel2" THEN B \div 2 ELSE 1) ELSE stride \div 2

(* A __syncthreads of the reduction; the last one leads to its result.      *)
Barrier ==
  /\ \A t \in Running : pc[t] = "wait"
  /\ stride' = NextStride
  /\ pc' = [t \in Thread |-> IF stride' = 0 THEN "read" ELSE "round"]
  /\ col' = [t \in Thread |-> 0]
  /\ UNCHANGED <<kernel, pass, part, total, cell, shared, row, dist>>

Skip(t) ==
  /\ pc[t] = "round"
  /\ t >= stride
  /\ Goto(t, "wait")
  /\ UNCHANGED <<kernel, pass, col, part, total, cell, shared, row, stride, dist>>

(* Two cells in kernel2, in kernel4 the cells of all warps in turn.         *)
Fetch(t) ==
  /\ pc[t] = "round"
  /\ t < stride
  /\ IF kernel = "kernel2"
       THEN /\ part' = [part EXCEPT ![t] = Combine(pass[t], shared[t], shared[t + stride])]
            /\ Goto(t, "store")
            /\ UNCHANGED col
       ELSE /\ part' = [part EXCEPT ![t] =
                 IF col[t] = 0 THEN shared[Slot(t, 0)]
                               ELSE Combine(pass[t], @, shared[Slot(t, col[t])])]
            /\ Advance(t, 1)
            /\ IF col[t] + 1 < B \div W THEN UNCHANGED pc ELSE Goto(t, "store")
  /\ UNCHANGED <<kernel, pass, total, cell, shared, row, stride, dist>>

Store(t) ==
  /\ pc[t] = "store"
  /\ shared' = [shared EXCEPT ![Slot(t, t)] = part[t]]
  /\ Goto(t, "wait")
  /\ UNCHANGED <<kernel, pass, col, part, total, cell, row, stride, dist>>

Read(t) ==
  /\ pc[t] = "read"
  /\ total' = [total EXCEPT ![t] = shared[Slot(t, 0)]]
  /\ col' = [col EXCEPT ![t] = t]
  /\ Goto(t, IF pass[t] = "max" THEN "exp" ELSE "load")
  /\ UNCHANGED <<kernel, pass, part, cell, shared, row, stride, dist>>

-----------------------------------------------------------------------------
(* The row of out *)

Exp(t) ==
  /\ pc[t] = "exp"
  /\ col[t] < C
  /\ row' = [row EXCEPT ![col[t]] = IF total[t] = Whole THEN "exp" ELSE "bad"]
  /\ Advance(t, Dim)
  /\ UNCHANGED <<kernel, pc, pass, part, total, cell, shared, stride, dist>>

(* Mutant of AfterExp: no __syncthreads at line 64.                        *)
AfterExpNoSync == "gather"

AfterExp == IF kernel = "kernel2" THEN "sync" ELSE "gather"

ExpEnds(t) ==
  /\ pc[t] = "exp"
  /\ col[t] >= C
  /\ pass' = [pass EXCEPT ![t] = "sum"]
  /\ part' = [part EXCEPT ![t] = Only({})]
  /\ col' = [col EXCEPT ![t] = t]
  /\ Goto(t, AfterExp)
  /\ UNCHANGED <<kernel, total, cell, shared, row, stride, dist>>

(* The __syncthreads at line 64.                                           *)
Sync ==
  /\ \A t \in Running : pc[t] = "sync"
  /\ pc' = [t \in Thread |-> "gather"]
  /\ UNCHANGED <<kernel, pass, col, part, total, cell, shared, row, stride, dist>>

Load(t) ==
  /\ pc[t] = "load"
  /\ col[t] < C
  /\ cell' = [cell EXCEPT ![t] = row[col[t]]]
  /\ Goto(t, "save")
  /\ UNCHANGED <<kernel, pass, col, part, total, shared, row, stride, dist>>

(* Mutant of SaveStep: i++ in the other kernels too.                       *)
SaveStepOne == 1

(* The store loop of kernel4 advances by i++ (line 209).                   *)
SaveStep == IF kernel = "kernel4" THEN 1 ELSE Dim

Save(t) ==
  /\ pc[t] = "save"
  /\ row' = [row EXCEPT ![col[t]] =
               IF cell[t] = "exp" /\ total[t] = Whole THEN "out" ELSE "bad"]
  /\ Advance(t, SaveStep)
  /\ Goto(t, "load")
  /\ UNCHANGED <<kernel, pass, part, total, cell, shared, stride, dist>>

Finish(t) ==
  /\ pc[t] = "load"
  /\ col[t] >= C
  /\ Goto(t, "done")
  /\ UNCHANGED <<kernel, pass, col, part, total, cell, shared, row, stride, dist>>

Done == \A t \in Thread : pc[t] = "done"

(* The kernel has ended.                                                   *)
Ended == Done /\ UNCHANGED vars

Step(t) ==
  \/ Gather(t)
  \/ Gathered(t)
  \/ GatheredAlone(t)
  \/ ExpAdd(t)
  \/ ExpAdded(t)
  \/ Publish(t)
  \/ Skip(t)
  \/ Fetch(t)
  \/ Store(t)
  \/ Read(t)
  \/ Exp(t)
  \/ ExpEnds(t)
  \/ Load(t)
  \/ Save(t)
  \/ Finish(t)

Next ==
  \/ \E t \in Thread : Step(t)
  \/ \E w \in Warp : Shuffle(w)
  \/ Barrier
  \/ Sync
  \/ Ended

Spec == Init /\ [][Next]_vars

(* The GPU runs every thread of a resident block until it ends or waits.    *)
FairSpec ==
  /\ Spec
  /\ \A t \in Thread : WF_vars(Step(t))
  /\ \A w \in Warp : WF_vars(Shuffle(w))
  /\ WF_vars(Barrier)
  /\ WF_vars(Sync)

-----------------------------------------------------------------------------
Label == {"gather", "shuffle", "publish", "wait", "round", "store", "read",
          "exp", "expadd", "sync", "load", "save", "done"}

Element == {"none", "exp", "out", "bad"}

(* The variables keep their shape, and the counters of the loops their      *)
(* bounds.                                                                 *)
TypeOK ==
  /\ kernel \in Kernels
  /\ pc \in [Thread -> Label]
  /\ pass \in [Thread -> {"max", "sum"}]
  /\ col \in [Thread -> 0 .. B + C]
  /\ part \in [Thread -> Value]
  /\ total \in [Thread -> Value]
  /\ cell \in [Thread -> Element]
  /\ shared \in [Thread -> Value]
  /\ row \in [Column -> Element]
  /\ stride \in 0 .. B - 1
  /\ dist \in [Warp -> 0 .. W]

(* The threads agree on the maximum and on the sum, and both are those of   *)
(* the whole row, although the shared array that passes them on is used     *)
(* again by threads that are ahead (softmax.cu:59-72, 182-195).            *)
TotalsAreWhole ==
  \A t \in Thread : pc[t] \in {"exp", "expadd", "load", "save"} => total[t] = Whole

(* Nothing is summed up before it is written: what the sums are made of is  *)
(* the row of exponentials, read without a barrier in kernel3 and kernel4   *)
(* (softmax.cu:128-132, 188-192).                                          *)
SumsReadExponentials ==
  \A t \in Thread : part[t][Junk] = 0

(* What a kernel is for: in the end every element of the row has been       *)
(* divided by the row's sum, once.                                         *)
Correct == Done => \A i \in Column : row[i] = "out"

(* The same for the kernels whose store loop takes each element once.       *)
RowIsNormalised == kernel # "kernel4" => Correct

(* An element of out gets its exponential once and before any thread       *)
(* divides it, though nothing but the reduction of the sum keeps the two    *)
(* apart in kernel3 and kernel4 (softmax.cu:125-140, 183-211); and only     *)
(* kernel4 divides it again.                                               *)
RowMovesForward ==
  [][\A i \in Column :
       \/ row'[i] = row[i]
       \/ row[i] = "none" /\ row'[i] = "exp"
       \/ row[i] = "exp" /\ row'[i] = "out"
       \/ kernel = "kernel4" /\ row[i] # "none" /\ row'[i] \in {"out", "bad"}]_vars

(* The kernel ends: no thread stays behind at a barrier or a shuffle.       *)
Terminates == <>Done
=============================================================================
