------------------------------- MODULE AddLayer -------------------------------
(***************************************************************************)
(* A VecAddLayer and the memory it works on: Layer::set_input              *)
(* (source/op/layer.cpp), VecAddLayer::forward (source/op/add.cpp), the     *)
(* choice of a kernel (kernels_interface.cpp), add_kernel_cu with its grid  *)
(* (cuda/add_kernel.cu), the empty add_kernel_cpu, and the copies of        *)
(* DeviceAllocator::memcpy (source/base/alloc.cpp) that bring data in and   *)
(* out.                                                                    *)
(*                                                                         *)
(* A tensor is the Buffer under it; it is empty while the Buffer has no     *)
(* memory, as after a failed malloc.  Buffer::allocate may give it some at  *)
(* any time, or other memory in place of what it has: the old block is then *)
(* never released, and a kernel at work on it goes on there.  External are  *)
(* is_empty and device_type, taken at their word, the output, set once to a *)
(* Buffer of the layer's device, Buffers that live on, and CUDA: a launch   *)
(* returns at once, its threads run in any order, a kernel that reads host  *)
(* memory is stopped, and a copy to the device waits for it.  An element is *)
(* known by where its value comes from.                                    *)
(***************************************************************************)
EXTENDS Integers

CONSTANTS
  Buffer,      \* the Buffers
  HostBuffer,  \* those of the CPU allocator; the others are CUDA's
  size,        \* the elements of each Buffer
  Null,        \* no Buffer
  thread_num   \* the threads of a block of the kernel (512)

ASSUME AddAssumption ==
  /\ HostBuffer \subseteq Buffer
  /\ size \in [Buffer -> Nat \ {0}]
  /\ Null \notin Buffer
  /\ thread_num \in Nat \ {0}

Device == {"Unknown", "CPU", "GPU"}

device_type(b) == IF b \in HostBuffer THEN "CPU" ELSE "GPU"

VARIABLES
  device_type_,  \* the layer's device
  inputs_,       \* the Buffers of the two inputs, Null: none
  output,        \* the Buffer of the output
  backed,        \* the Buffers that have memory
  late,          \* history: the inputs that were empty when they were set
  val,           \* what each element is, "start", "sum", or "none" where there is none
  launch,        \* the kernel on the device: its operands, late then, the threads to run,
                 \* the elements it has written, and whether its output is still where
                 \* the output's Buffer points
  host           \* the host program "runs", or "stopped" at a CHECK or a null call

addVars == <<device_type_, inputs_, output, backed, late, val, launch, host>>

Input == {0, 1}

Idle == [in |-> [n \in Input |-> Null], out |-> Null, late |-> {}, todo |-> {},
         sums |-> {}, kept |-> TRUE]

(* Mutant of block_num: rounded down.                                      *)
block_numDown(n) == n \div thread_num

(* gridDim.x for a tensor of n elements.                                   *)
block_num(n) == (n + thread_num - 1) \div thread_num

Tid(n) == 0 .. block_num(n) * thread_num - 1

(* The elements of a Buffer, and the one behind its last.                   *)
Cell(b) == 0 .. size[b]

is_empty(b) == b \notin backed

Fresh(b) == [x \in Cell(b) |-> IF x < size[b] THEN "start" ELSE "none"]

AddInit ==
  /\ device_type_ \in Device
  /\ inputs_ = [n \in Input |-> Null]
  /\ output \in {b \in Buffer : device_type_ = "Unknown" \/ device_type(b) = device_type_}
  /\ backed \in SUBSET Buffer
  /\ late = {}
  /\ val = [b \in Buffer |-> Fresh(b)]
  /\ launch = Idle
  /\ host = "runs"

-----------------------------------------------------------------------------
(* Buffer::allocate, on a Buffer that has memory or not: it gets a new      *)
(* block, or none.                                                         *)
Allocate(b) ==
  /\ backed' \in {backed \cup {b}, backed \ {b}}
  /\ val' = [val EXCEPT ![b] = Fresh(b)]
  /\ launch' = [launch EXCEPT !.kept = @ /\ b # launch.out]
  /\ UNCHANGED <<device_type_, inputs_, output, late, host>>

Stop ==
  /\ host' = "stopped"
  /\ UNCHANGED <<device_type_, inputs_, output, backed, late, val, launch>>

(* Mutant of Accepts: the device is not looked at.                         *)
AcceptsAny(idx, b) == idx \in Input

(* The CHECKs of set_input: an empty tensor may be of any device.           *)
Accepts(idx, b) ==
  /\ idx \in Input
  /\ ~is_empty(b) => device_type(b) = device_type_

SetInput(idx, b) ==
  /\ Accepts(idx, b)
  /\ inputs_' = [inputs_ EXCEPT ![idx] = b]
  /\ late' = IF is_empty(b) THEN late \cup {idx} ELSE late \ {idx}
  /\ UNCHANGED <<device_type_, output, backed, val, launch, host>>

(* The CHECKs of add_kernel_cu.                                            *)
Fit ==
  /\ \A n \in Input : inputs_[n] # Null /\ ~is_empty(inputs_[n])
  /\ ~is_empty(output)
  /\ \A n \in Input : size[inputs_[n]] = size[output]

(* The threads a launch starts.                                            *)
Started == Tid(size[output])

(* forward, once check() has agreed: the kernel for an unknown device is    *)
(* null, the one for the CPU does nothing, the one for the GPU is launched. *)
Forward ==
  /\ device_type_ = "GPU" /\ Fit
  /\ launch.todo = {}
  /\ launch' = [in |-> inputs_, out |-> output, late |-> late, todo |-> Started,
                sums |-> {}, kept |-> TRUE]
  /\ UNCHANGED <<device_type_, inputs_, output, backed, late, val, host>>

ForwardFails ==
  /\ device_type_ = "Unknown" \/ (device_type_ = "GPU" /\ ~Fit)
  /\ Stop

(* "if (tid > size) return": thread size does not.                         *)
Returns(tid, n) == tid > n

OnDevice(ins) == \A n \in Input : device_type(ins[n]) = "GPU"

(* A thread of the kernel: it returns, adds, or brings the kernel down.     *)
RunThread(tid) ==
  /\ tid \in launch.todo
  /\ \/ /\ Returns(tid, size[launch.out])
        /\ launch' = [launch EXCEPT !.todo = @ \ {tid}]
        /\ UNCHANGED val
     \/ /\ ~Returns(tid, size[launch.out])
        /\ OnDevice(launch.in)
        /\ val' = IF launch.kept THEN [val EXCEPT ![launch.out][tid] = "sum"] ELSE val
        /\ launch' = [launch EXCEPT !.todo = @ \ {tid}, !.sums = @ \cup {tid}]
     \/ /\ ~Returns(tid, size[launch.out])
        /\ ~OnDevice(launch.in)
        /\ launch' = [launch EXCEPT !.todo = {}]
        /\ UNCHANGED val
  /\ UNCHANGED <<device_type_, inputs_, output, backed, late, host>>

(* The copies that memcpy makes.                                           *)
Kind(source, dest) == <<device_type(source), device_type(dest)>>

(* Mutant of Copied: kmemcpyCUDA2CPU as well.                              *)
CopiedBack(source, dest) == Kind(source, dest) # <<"GPU", "GPU">>

(* kmemcpyCUDA2CPU and kmemcpyCUDA2CUDA fall through: nothing is copied.    *)
Copied(source, dest) == Kind(source, dest) \in {<<"CPU", "CPU">>, <<"CPU", "GPU">>}

Memcpy(source, dest) ==
  /\ {source, dest} \subseteq backed
  /\ Kind(source, dest) # <<"CPU", "CPU">> => launch.todo = {}
  /\ Copied(source, dest)
  /\ val' = [val EXCEPT ![dest] = [x \in DOMAIN @ |->
               IF x < size[source] /\ x < size[dest] THEN val[source][x] ELSE @[x]]]
  /\ UNCHANGED <<device_type_, inputs_, output, backed, late, launch, host>>

(* CHECK_NE of memcpy.                                                     *)
MemcpyFails(source, dest) ==
  /\ ~({source, dest} \subseteq backed)
  /\ Stop

HostStep ==
  /\ host = "runs"
  /\ \/ \E b \in Buffer : Allocate(b)
     \/ \E idx \in -1 .. 2, b \in Buffer : SetInput(idx, b) \/ (~Accepts(idx, b) /\ Stop)
     \/ Forward
     \/ ForwardFails
     \/ \E b, c \in Buffer : Memcpy(b, c) \/ MemcpyFails(b, c)

DeviceStep == \E b \in Buffer : \E tid \in Tid(size[b]) : RunThread(tid)

AddNext == HostStep \/ DeviceStep

AddSpec == AddInit /\ [][AddNext]_addVars

-----------------------------------------------------------------------------
(* The variables keep their shape.                                         *)
AddTypeOK ==
  /\ device_type_ \in Device
  /\ inputs_ \in [Input -> Buffer \cup {Null}]
  /\ output \in Buffer
  /\ backed \subseteq Buffer
  /\ late \subseteq Input
  /\ val = [b \in Buffer |-> val[b]]
  /\ \A b \in Buffer : val[b] \in [Cell(b) -> {"start", "sum", "none"}]
  /\ host \in {"runs", "stopped"}
  /\ launch \in [in : [Input -> Buffer \cup {Null}], out : Buffer \cup {Null},
                 late : SUBSET Input, todo : SUBSET Nat, sums : SUBSET Nat, kept : BOOLEAN]
  /\ launch.todo # {} => launch.out # Null /\ launch.todo \subseteq Tid(size[launch.out])

(* The kernel reads host memory only through an input that had no memory    *)
(* when set_input looked at its device, and got it later (layer.cpp:10-12). *)
KernelReadsDevice ==
  launch.todo # {} =>
    \A n \in Input : launch.in[n] \in HostBuffer => n \in launch.late

(* A kernel whose inputs are on the device writes the sum of every one of   *)
(* the n elements of its output, and of one more, the one behind the last,  *)
(* unless n is a multiple of the block's threads (add_kernel.cu:10, 27);    *)
(* what it has written is in the output, unless Buffer::allocate has put    *)
(* other memory there meanwhile (buffer.cpp:29).                           *)
AddsOneTooMany ==
  launch.out # Null /\ OnDevice(launch.in) =>
    LET n == size[launch.out]
    IN  /\ launch.sums \subseteq 0 .. n
        /\ launch.todo = {} =>
             launch.sums = IF n % thread_num = 0 THEN 0 .. n - 1 ELSE 0 .. n
        /\ launch.todo # {} /\ launch.kept =>
             \A x \in launch.sums : val[launch.out][x] = "sum"

(* No sum ever comes to host memory: the CPU's kernel adds nothing, and     *)
(* memcpy does not copy from the device (add_kernel.cpp:4-8,               *)
(* alloc.cpp:16-30).                                                       *)
HostSeesNoSum ==
  \A b \in HostBuffer : \A x \in DOMAIN val[b] : val[b][x] # "sum"
=============================================================================
