# A verification development for infra_learn

TLA+ models, model-checking runs and machine-checked proofs for the code of this
repository: `llm_infer_framework` (a small inference framework: allocators, buffers,
tensors, layers, a model loader) and `cuda_learn` (reduction, softmax and matrix
multiplication kernels). `other/googletest-main` is bundled third-party code and is
left aside.

The code is work in progress. CMake builds only `buffer.cpp`, `alloc_cpu.cpp` and the
unit test; other files contain slips no compiler accepts (`ture`, a missing return
type, two kernels with one name). The models follow what each line does once such a
slip is read in the only way it can be meant. In the one place where two readings are
possible (`alloc_cu.cpp:25`) both are modelled.

## 1. Inventory

| Component | State | Operations | Correct when |
|---|---|---|---|
| CUDA device allocator (`alloc_cu.cpp`, `alloc.h`) | `big_buffers_map_`: per device a vector of `(data, byte_size, busy)`; CUDA's own table; the current device | `allocate` (search, best fit, `cudaMalloc`, failure), `release` (mark idle, or `cudaFree`) | a block has one owner, is allocated and big enough while owned; pool, busy bits, CUDA and owners agree; nothing is lost but what a Buffer overwrites |
| Host memory: CPU allocator, `Buffer`, `Tensor` (`alloc_cpu.cpp`, `buffer.cpp`, `tensor.cpp`) | heap; per Buffer pointer, size, ownership flags; `shared_ptr` counts; tensor sizes | constructors, `Buffer::allocate`, `Tensor::allocate`, copies, destructors | owners read live memory, tensors fit, external memory is never freed, every block is freed once |
| Block reductions (`sum.cu`) | shared memory, program counters, strides | `reduce_v0`, `reduce_v1`, two `reduce_v2`, `warpReduce`, `block_reduce` | no data race; the output is the sum, of this call and no other; the kernel ends |
| Softmax (`softmax.cu`) | shared memory, warps, rows | four kernels | each row sums to one; no races in the store loop |
| Matrix multiplication (`matmul.cu`) | tiles in shared memory, sums in registers | `mysgemm_v1`, `v2`, `v4` | every product is added once and in order; tiles are filled before they are used and not overwritten while read |
| RMSNorm (`rmsnorm_kernel.cu`, `.cpp`) | warp sums, the shared sum, the row | `block_redude_sum`, two row kernels, the CPU loop | the row is divided by its own sum, also when the output is the input |
| Layers, add kernel, dispatch (`layer.cpp`, `add.cpp`, `kernels_interface.cpp`, `add_kernel.*`) | inputs, outputs, weights of a layer | `set_input`, `set_weight`, `check`, `forward` | the kernel of the tensors' device runs on indices inside them |
| Model loading (`model.cpp`, `llama3.cpp`, `raw_model_data.h`) | descriptor, `FILE`, configuration, group size, weight offsets | `read_model_file`, `generate_model_infos`, `create_param_layers`, `set_weight` | what was read is of one file; heads fit their dimensions; weights are disjoint |
| Memory copies (`alloc.cpp`, `alloc_cpu.cpp`) | none | `memcpy` by kind | the kind that was asked for is copied |
| Status (`base.cpp`) | none | constructors | nothing to check |

How they interact. A Tensor holds a `shared_ptr` to a Buffer; a Buffer calls its
allocator in its constructor, in `Buffer::allocate` and in its destructor; layers copy
tensors, so they share Buffers; weight layers make tensors over the memory of the
mapped model file, which no Buffer owns. The kernels run over the pointers of tensors;
within a block their threads share memory and meet at `__syncthreads` and at warp
shuffles only. The host code is single threaded: what makes it hard is the order of
calls, sharing, failure of allocations, and state cached in pools. The kernels are
where real interleaving happens.

What is hard, in short (the full list, by line, is in `PROJECT.json` under `hazards`):

* a pooled block's way through several owners, sizes and devices, with failures between;
* `cudaFree` inside a loop over devices, while the pools keep their entries;
* `shared_ptr` sharing with replacement of one owner's Buffer, and allocation failure
  in the middle of it;
* threads of a block reading cells that others write in the same round;
* shared cells used again for the next call, tile or pass while a slow warp still reads;
* loops whose variable does not change; block, tile and row sizes that do not divide;
* a kernel that runs beside the host program, over Buffers that got their memory late;
* a file replaced while it is read, descriptors nobody closes, offsets in 32 bits.

## 2. Modules

| Module | Models | Stands on |
|---|---|---|
| `DeviceMemory` | the contract of `DeviceAllocator` towards Buffers: grant and return | |
| `CudaAllocator` | `CUDADeviceAllocator` with Buffers as clients and CUDA as environment | refines `DeviceMemory` |
| `TensorMemory` | CPU allocator, Buffers, tensors and the application's `shared_ptr`s | |
| `SumBlock` | one block of the four `reduce_*` kernels | |
| `BlockReduce` | one block of `block_reduce`, its twin `block_redude_sum`, and both RMSNorm row kernels | |
| `SoftmaxBlock` | one block, that is one row, of softmax kernels 1 to 4 | |
| `MatmulNaive` | `mysgemm_v1`: what a matrix product is, to the order of its terms | |
| `MatmulTiles` | one block of `mysgemm_v4`, and of `mysgemm_v2` as one of its shapes | refines `MatmulNaive` |
| `ModelLoad` | `read_model_file`, `generate_model_infos`, `create_param_layers`, `set_weight` | |
| `AddLayer` | `set_input`, `VecAddLayer::forward`, the dispatch, both add kernels, `memcpy` | |
| `MCInference` | small instances of `ModelLoad` and `AddLayer`, in one run | both |
| `MC*` | instances and symmetry sets for TLC | the module of the same name |
| `Remainders` | lemmas about `\div` and `%` | |
| `InferenceProofs` | theorems and lemmas | `ModelLoad`, `AddLayer` |
| `*Proofs` | theorems and lemmas | the module of the same name |

### CudaAllocator

State: `pool[d]` and `busy[d]` are the entries of `big_buffers_map_[d]` and those with
the busy bit; `keys` the map's keys (`operator[]` adds one at line 25, and `release`
walks over them in ascending order); `held[b]` is what Buffer `b` owns; `location` and
`extent` are CUDA's table, the ground truth the pool must agree with. Two are histories:
`lost` has the blocks whose pointer a Buffer overwrote, `misfreed` the erroneous
`cudaFree` calls.

| Action | Code |
|---|---|
| `Reuse` | `alloc_cu.cpp:27-42`: best fit among idle entries that waste less than 1 MB |
| `Malloc`, `MallocFails` | lines 44-58, with and without success |
| `AllocateSmall` | lines 61-63: no `return`, the caller gets an undefined pointer |
| `Release` | lines 114-128: `FreeingDevices` is the set of devices the loop passes and calls `cudaFree` for, `HomeDevices` the one where it stops |
| `SetDevice` | the application calls `cudaSetDevice` |

The first four are also `Buffer::allocate` (`buffer.cpp:26-41`), which does not look at what
the Buffer holds: on one with a block `ptr_` is overwritten (`Overwrite`), with null when
`cudaMalloc` fails, and nobody releases the old block. A new or empty Buffer asks for any
size; one with a block asks again for the bytes it was made for (`Asks`). Such a block is
in `lost`: its pool entry stays busy for good. The properties say so: `NoLeak` exempts
these blocks and no others, and in `PoolIsExact` an entry is busy exactly while its
block is held or once it is lost, never both. In `DeviceMemory` a Buffer that drops a block
without getting another is a `Return`, in which the block may stay allocated.

A vector's order only breaks ties between entries of the same size, so a pool is a set.
The loops of `release` over the small pool (lines 73-112) run over an empty map in every
reachable state, because `allocate` never fills it; they change nothing.

`PoolAliased` chooses the reading of line 25. `TRUE`: the pool is bound by reference, as
in `release`. `FALSE`: it is copied, as declared, and what `allocate` does to it is lost.

### TensorMemory

State: `heap[a]` is the size `malloc` returned at `a` (0: none); `buffer[b]` a live Buffer
with pointer, size and kind; `ref[o]` the Buffer an owner points to. Owners are tensors
and the application's `shared_ptr<Buffer>` variables (`Handle`); layer inputs, outputs and
weights are tensors. A Buffer dies in the step that redirects its last owner: `Dying` is
the use count reaching zero, `Freed` what the destructor then releases. Both histories,
`promised` (tensors whose last `allocate` said yes) and `replaced` (blocks whose pointer
`Buffer::allocate` overwrote), serve properties only.

Of the flags of a Buffer two combinations occur in the code: with an allocator and
managed, or external and without an allocator; `kind` names them. `BufferNew`,
`BufferView` and `BufferAllocate` are the Buffer operations of `buffer.cpp` as the unit
test uses them. `TensorNew`, `TensorView` and `TensorUnbacked` are the three ways through
the constructor; `TensorKeep` and `TensorAllocate` the two through `Tensor::allocate`;
`TensorCopy` is assignment and `Layer::set_input`. `malloc` may fail in each.

### SumBlock

One block, every interleaving of its threads. A float is the bag of the inputs that were
added into it, with counts cut at 2, so "the sum is right" means each input exactly once.
`sdata[tid] += sdata[tid + s]` is two steps, `Fetch` and `Store`, so a race shows.
`Barrier` is `__syncthreads` with the loop header after it; `Shuffle` the warp's
`__shfl_down_sync`. `kernel` is chosen in the initial state and never changes.
`Writes` and `Reads` are the cells of a thread's next step, from the load of the input over
the rounds and `warpReduce` to the read of the result: `NoRace` keeps them apart.
Uninitialised cells and cells beyond the array are `Junk`. `reduce_v0` and the plain
`reduce_v2` do not sum; what they do instead is stated (`V0KeepsFirst`,
`EndlessNeverEnds`, a part of `Terminates`), because it holds in every interleaving and at every block size.

### BlockReduce

As in `SumBlock` a sum is a bag, here of the values of two calls, so that a value of the
wrong call shows. `Shuffle` is one step of a whole warp, `Publish`, `AfterPublish` and
`Read` are the way through `warpSum` with its one barrier. `block_reduce` has no barrier
after the cells are read, so a second call at once would race with the first; the caller
modelled here, who is external, meets at a barrier in between (`Fence`).
`block_redude_sum` never gets past its first shuffle loop, because `mask >> 1` changes
nothing; the lines after it are unreachable.

The row kernels `Gather`, reduce by CUB (external: the result is defined in one thread
only) and `Scale`. In `row_rmsnorm_f32_v0`, the one the host launches, each warp does the
whole row and every lane uses what only lane 0 was given; `rmsnorm_kernel_cu` launches it
with 128 threads, four warps. `inplace` lets `out` be `in`. A row has any length (`size`, out
of the `Sizes` of the launch): in one shorter than the block some threads have no column,
and it may be empty. All warps of `row_rmsnorm_f32_v0` share one `TempStorage` (line 28),
where CUB asks for one per warp; CUB reduces 32 lanes by shuffles and does not touch it,
so `WarpReduce` takes the warps' reductions as independent. That is an assumption about a
library that is not in the repository.

### SoftmaxBlock

One row, every interleaving of the threads that work on it. A maximum or a sum is the
bag of the columns that went into it, as in `SumBlock`, except that taking a maximum
twice is harmless and adding twice is not (`Combine`); it is right when it is `Whole`.
`row` is the row of `out`, which goes from exponentials to quotients; dividing an element
twice, or reading one that is no exponential, gives `"bad"` or `Junk`.

| Action | Code (`softmax.cu`) |
|---|---|
| `Gather`, `Gathered` | the loops over a thread's own columns, in both passes |
| `Shuffle` | `warpReduceMax`, `warpReduceSum`, and in kernel 3 the broadcast of lane 0 |
| `Publish`, `Barrier`, `Fetch`, `Store`, `Skip`, `Read` | the reduction in the shared array: halving strides in kernel 2, thread 0 over the warps' cells in kernel 4 |
| `Exp`, `ExpEnds`, `Sync` | the exponentials, and kernel 2's barrier after them (line 64) |
| `Load`, `Save`, `Finish` | the division; a thread reads an element before it writes it, and others may come between |

Two details carry the correctness. Kernel 2 uses one array for both passes, and only the
barrier of line 64 keeps a thread that is ahead from publishing its sum over the maximum
another has yet to read. Kernel 4 has no such barrier and is right because `sumvals` lies
behind `maxvals`. The mutants `AfterExpNoSync` and `SlotShared` take each of them away.
Kernel 1 works a row per thread and shares nothing: it is the same row with `Dim = 1`
and the loops `GatheredAlone`, `ExpAdd` and `ExpAdded`. The launches in `main` are
commented out; they give kernel 3 one warp, which is its `Dim`, and kernels 2 and 4 no
dynamic shared memory. The model gives those two the array they index.

### MatmulNaive and MatmulTiles

A product is known by its inner index, and a sum by the sequence of its products, because
a floating-point sum depends on the order of its terms. `MatmulNaive` is `mysgemm_v1`,
with any group of threads taking a step together.

`MatmulTiles` has the two tiles and, per thread, the counter of the loop it is in and the
`TM * TN` sums. A cell of a tile holds the inner index of what was loaded into it. `Load`
and `Loaded` are the two strided loops, `TilesReady` and `TilesUsed` the two barriers
(the second with the header of the outer loop), `Compute` an iteration of the inner loop,
`Store` the end. `shape` holds the template arguments and `K`; nothing in the code says
which shapes are meant, so all are allowed, and `TilesFit` is the condition under which
the loads work. A load beyond the matrix reads `Junk`; one outside its tile may land in
the other (`WriteOutside`). `mysgemm_v2` is the shape with square tiles and one element
per thread; its `Bk` (line 38) is read as `BK`.

`ImplementsNaive` maps each element of the block to the thread that owns it (`Owner`,
`Local`): a step of one thread here is a step of that thread's elements there.

### ModelLoad

State: the steps of `read_model_file` (`step`), what lies at the path now (`content`) and
what `fopen` opened (`file`), the open `descriptors`, `config_`, `group_size_`, and the
weights of `wq_layers_` as offsets. `ReplaceFile` is the environment. `open` and `fopen`
may fail at any time, reads fail on a short file. The header's fields are ints of any
sign, because nothing looks at it. Divisions round towards zero (`CDiv`), `CAbs` is
`std::abs`, and a division that traps, by zero or of the lowest int by -1, ends the
process (`Deadly`, `"dead"`). Products of ints wrap (`Wrapped`) and become a `size_t` by sign
extension (`ToSize`). `create_param_layers` may be called before anything was read, and
again; the `CHECK` on `weight.assign`, a function defined nowhere, is taken to pass. `reads`
and `created` (the configuration of each call and the number of layers before it) are
histories. The end of `read_model_file`
lacks its return; it is taken as success, and `config_`, which nothing sets, to point to
zeros.

### AddLayer

State: the layer's device, inputs and output; which Buffers have memory; what each
element of each Buffer is; the kernel on the device (`launch`) with the operands it was
given, the threads still to run and the elements it has written (`sums`); whether the host
program runs or was stopped by a `CHECK`. `Forward` only launches; `RunThread` runs one
thread at any later time, while the host may set other inputs, allocate, or copy.
`Allocate` is `Buffer::allocate` on any Buffer, also one a running kernel reads or writes:
the old block is never released, so the kernel goes on there, unseen by the Buffer
(`launch.kept` says whether its output is still where the Buffer points), and the Buffer
starts with a fresh block, or none. Buffers themselves live on: what becomes of memory
when their owners go is `TensorMemory`. `Memcpy` to or from the device waits for the
kernel, as `cudaMemcpy` does; a copy between host Buffers does not.

`is_empty` and `device_type` are defined nowhere in the repository and are taken at their
word; `check()`, which `forward` calls, likewise, and assumed to agree.

## 3. Runs

Passing runs check the properties named; a run marked *violation* checks one statement
of the repository the code does not keep, and TLC's counterexample shows it. The type
invariants are proved and not checked by a run. A `Terminates` says exactly which launches end: the others never get
out of the loop whose variable does not change.

| Run | Instance | Shows |
|---|---|---|
| `pool_one_device` | 1 device, 4 addresses, 3 Buffers, sizes 3-5, reference | `HeldIsBacked`, `PoolIsExact`, `NoLeak`, and the refinement of `DeviceMemory` |
| `pool_by_value` | 2 devices, 3 addresses, 3 Buffers, sizes 3-4, copy | `NoLeak`, `FreedOnce` |
| `pool_two_devices` | 2 devices, 2 addresses, 2 Buffers, sizes 1, 3, 4, reference | `FirstPoolIsAllocated`: the pool of the lowest device survives everything, even undefined pointers from small requests |
| `pool_freed_on_other_device` | 2 devices | *violation* of `PooledIsAllocated`: the `cudaFree` at line 127 frees blocks pooled on a later device |
| `memory` | 2 tensors, 2 handles, 3 Buffers, 2 addresses, sizes 0-2 | `OwnersReadLiveMemory`, `TensorsFit`, `OnlyHeapIsFreed`, `NoLeak`, `MemoryStaysPut` |
| `tensor_null_promise` | 2 tensors | *violation* of `PromisedHasMemory`: a second `allocate` after a failed one returns true with a null pointer |
| `sum` | the four `reduce_*`, 8 threads, warps of 4 | `NoRace`, `SegmentsAreSummed`, `Correct`, `V0KeepsFirst`, `Terminates` |
| `block_reduce` | 8 threads, warps of 4, rows of 3 and 5 (v0) or 3 and 9 (v1) | `NoRace`, `ReturnsSum`, `RowIsNormalised`, `LaneZeroIsNormalised`, `Terminates` |
| `softmax` | kernels 1 to 4; 4 threads, warps of 2, 5 columns | `TotalsAreWhole`, `SumsReadExponentials`, `RowIsNormalised` (kernels 1, 2 and 3), `RowMovesForward`, `Terminates` |
| `softmax_kernel4` | kernel 4, 4 threads, 3 columns | *violation* of `Correct`: the loop of line 209 advances by one, so threads divide each other's elements again |
| `matmul` | eight shapes, blocks up to 4 by 2 | `NoRace`, `StaysInside`, `TilesAreWhole`, `RaggedIsWrong`, `Terminates`, and the refinement of `MatmulNaive` |
| `model` | 4 files, 5 descriptors, ints of 6 bits; 3 Buffers of 3 and 4 elements, blocks of 3 threads | `OneFile`, `ReadsRunOut`, `HeadsFit`, `WeightsDisjoint`; `KernelReadsDevice`, `AddsOneTooMany`, `HostSeesNoSum` |

Bounds. Every set of a run is finite and no counter needs a bound in a guard but one (`MaxCreate`, the calls of
`create_param_layers`), so the runs explore all reachable states. `BigLimit = 2` and `Slack = 2` stand for the two 1 MB
constants; sizes 3, 4 and 5 then give an exact fit, a fit with waste, a miss by waste and
a miss by size. Three Buffers let one entry be held, one be idle and
one be chosen between, and the fourth address of `pool_one_device` is for a block that is lost by
then; two devices are what the loop in `release` needs to pass one.
In `memory` three Buffers let an owner hold an old and a new one while another is shared,
and two addresses make `malloc` run out. Eight threads with warps of four give `reduce_v1`
three rounds, with idle threads in each, and the warp variant two warps, the one block
size at which its loop is not entered; at larger ones it does not end, like the first
`reduce_v2`. In `softmax` five columns over four threads (over two in kernel 3) make the loops go
round twice for some threads and once for others; two warps are what kernel 4 needs to
combine any. In `block_reduce` a row of 9 columns takes 8 threads two passes, the second for one thread only; 5
columns do the same to 4 lanes; a row of 3 leaves five threads, or a lane of each warp,
without a column. The two warps have one publish while the other still shuffles, and lanes 2 and 3 of
the first have no cell to read. The shapes of `matmul`
are `mysgemm_v2` with a `K` of two tiles and with one that ends in half a tile, tall,
wide and deep tiles of `mysgemm_v4` that are filled in one or in several passes, one
shape whose tiles do not fit its threads although the loads move on, and two with a stride
of 0. In `model` one file has heads that divide, one has heads that do not and offsets
beyond the 6-bit int, one has no heads, and one has a negative dimension that the heads
do not divide; two calls of `create_param_layers` append one configuration to another; 3
and 4 elements over blocks of 3 threads are a multiple of the block and one
that is not. The two parts of `model` share no state, so each runs while the other stays
as it starts. Symmetry is used over addresses, Buffers, tensors and handles, which no
definition orders, and only in runs without liveness.

Deadlock is checked in every run but `model`, where the host program may really stop, at
a `CHECK`, a null call or a division by zero. In the four kernel modules the ended kernel
stutters in `Ended`, so a block stuck at a barrier would be reported.

Fairness appears in these four only. In three of them each thread of a resident block, the
barrier and the shuffle are weakly fair, because the hardware runs every thread of a block
until it ends or waits, and a barrier all threads have reached lets them go. `BlockReduce`
assumes less, that the block as a whole does not stop while something in it can run, and
ends all the same. The host models promise
nothing about progress and state none.

Every property has a mutant of the code in its module (an operator just before the one
it changes) that breaks it; they are listed in `PROJECT.json`.

## 4. Proofs

For every value of the constants, checked by TLAPS from the assumptions named in the
modules: `ConstantsAssumption`, `MemoryAssumption`, `AddAssumption` (shapes of the
constants, and that null is not an address or a Buffer), `SumAssumption`
(sizes are positive), `ReduceAssumption` (a block is whole warps, no more of them than a warp has
lanes; rows have any length),
`SoftmaxAssumption` (a block is whole warps, a row has any number of columns),
`ShapesAssumption` (template arguments are positive and a thread's part is no larger than
the block), `LoadAssumption` (a header's fields are ints of any sign, and a `size_t` has room for
twice as many values as an int has that are not negative).

| Theorem | Says | Further assumption |
|---|---|---|
| `TypeCorrect` | types of the CUDA allocator, both readings | |
| `PoolCorrect` | pool, CUDA and Buffers agree, one holder, lost only what `Buffer::allocate` overwrites | one device, pool by reference, big requests |
| `UnpooledCorrect` | one holder, backed, lost only what `Buffer::allocate` overwrites, freed once | pool by value, big requests |
| `AllocatorImplementsDeviceMemory` | every step is a grant, a return or a stutter of the contract | either of the two above |
| `MemorySafe` | live memory, tensors fit, only heap blocks are freed | |
| `NothingElseIsLost` | `NoLeak`: only blocks `Buffer::allocate` overwrites are lost | |
| `SharedMemoryStays` | the action property `MemoryStaysPut` | |
| `FirstPoolSurvives` | `FirstPoolIsAllocated`, for any devices and requests | |
| `SumTypeCorrect` | types and bounds of all four kernels | |
| `ReduceV1Correct` | no race, right segments, right sum in `reduce_v1` | the block size is a power of two |
| `SumsAreCorrect` | no race, from the load to the last read, and the right sum in all that end but `reduce_v0`, the warp variant with its shuffles included | the block size is a power of two, with two warps or more for the warp variant |
| `ReduceV0KeepsFirst`, `V2NeverEnds` | what the other two do instead | |
| `ReduceTypeCorrect`, `ReduceNoRace`, `WarpSumNeverReturns` | types; barriers keep readers and writers apart; the twin's loop | |
| `BlockReduceReturnsSum` | both calls return the sum of their own values | the warp size is a power of two |
| `RowsAreNormalised`, `FirstLanesAreNormalised` | what `row_rmsnorm_f32_v1` and `_v0` get right, on rows of any length | |
| `SoftmaxTypeCorrect` | types and loop bounds of the four kernels, for every row | |
| `SoftmaxTotalsAreWhole`, `SoftmaxSumsReadExponentials` | each thread uses the maximum and the sum of the whole row, and the sums are made of exponentials | `Fitting`: `B` is a power of two for kernel 2, `W` for kernels 3 and 4 |
| `SoftmaxRowIsNormalised`, `SoftmaxRowMovesForward` | kernels 1, 2 and 3 divide every element once; in all four it is an exponential before any thread divides it | `Fitting` |
| `SumNeverStuck`, `ReduceNeverStuck`, `SoftmaxNeverStuck`, `MatmulNeverStuck` | no block is ever stuck at a barrier or a shuffle, whatever its size or shape | |
| `SumStepsRunOut`, `ReduceStepsRunOut`, `SoftmaxStepsRunOut`, `MatmulStepsRunOut` | every step lowers a count of the steps some thread has left and raises none | the kernel is none of the endless ones |
| `MatmulTypeCorrect`, `LoadsRaceWithNothing`, `LoadsStayInside`, `TilesAreFilled` | the tiles, for every shape | stated in the property: `TilesFit` |
| `RaggedSumsAreWrong`, `NarrowBlocksNeverCompute` | what shapes that do not fit lead to | |
| `BlockImplementsNaive` | every shape that fits implements `mysgemm_v1` | |
| `LoadTypeCorrect`, `ReadIsOfOneFile`, `ReadsAreBounded`, `HeadsAlwaysFit`, `WeightsNeverOverlap` | the loader, for every set of files, headers of any sign and any calls of `create_param_layers` | stated in the property: where ints overflow, and the sign a placement needs |
| `AddTypeCorrect`, `OnlyLateInputsMisplaced`, `KernelAddsOneTooMany`, `SumsStayOnDevice` | the layer, for all Buffers and sizes, also when Buffers get other memory under a kernel | |

The arguments.

* *Pool.* `HeldIsBacked` alone is not inductive: a reused block must have been kept
  allocated while idle. The invariant adds `PoolIsExact` (an entry stands for one
  allocated block of its size, busy exactly while held) and `HeldIsKnown` (a held block's
  device is a key, and its pool has the block). With one device a release then stops at
  the block's own entry before any `cudaFree`. `LostStays` adds that a block that was
  overwritten stays allocated and is held by nobody; `HeldAlone` is why an overwritten
  pointer had no other holder. With the pool by value, pools are empty
  and a release frees exactly the released block.
* *Memory.* The invariant is `Counted` (a Buffer is alive exactly while it has an owner),
  `Backed` and `SoleManager` (a managed pointer is a block of the Buffer's size no other
  Buffer manages). All actions but `BufferAllocate` are one operation, `Redirect`, on an
  owner; it is analysed once (`RedirectEffect`, `RedirectKeeps`, `RedirectCore`) and the
  actions are shown to be legal uses of it.
* *`reduce_v1`.* The invariant says what the cells hold in each phase: after loading,
  segments of width one; in the round of stride `s`, segments of width `s` at multiples
  of `s`, and of width `2s` where the active thread has stored. The arithmetic is in
  `StrideDoubles` (below `B` a stride that divides a power of two can double) and
  `Partner` (the cell an active thread reads is inside the array and belongs to an idle
  thread), which is also why there is no race.

* *First pool.* `FirstPoolInv` adds that a pool with an entry is in the map. The loop of
  `release` stops at the first device whose pool has the block, before it has freed
  anything; so only blocks not listed for the first device are ever freed.
* *`block_reduce`.* `Together` and `InStep` say which labels threads can have at once: at
  a barrier nobody is ahead by more than one phase. `CallInv` says what a lane has after a
  shuffle of distance `d`: the values of the lanes congruent to it modulo `2d` when it is
  among the lanes that still count; then what the cells hold, and the same again over warps.
  The lemmas about `InWarp` and `OfWarps` are the arithmetic, and need a power of two.
* *Row kernels.* `RowInv` says that a thread's part is its residue class of columns below
  its counter, and that nothing is scaled before all have gathered; in place, that an
  element is overwritten only by the thread that owns it.
* *Warp variant of `reduce_v2`.* `Residue` is what a cell or a lane has at width `s`: the
  inputs whose number has its remainder by `s`. Each shuffle halves the width, because a
  remainder by `s` is one of two by `2s` (`ResidueHalves`); the lanes without a partner are
  those that do not count any more. `Parting` says which labels threads can have at once: a
  load meets no read, and a lane's last store only its own; within a round the active threads read cells of idle ones. That its two warps are exactly the block is
  `BelowStrideAlways` and `AloneAlways`: a larger block never leaves its loop.
* *Softmax.* No property is inductive alone: what a thread divides by depends on all others.
  `Shape` has the labels and bounds of each kernel; `InStep` says how far apart threads can
  be (`Group`: nobody is past a barrier another is before; kernels 3 and 4 let the
  exponentials and their sum overlap). `Lane` says which columns a thread's part stands for:
  its own up to its counter (`Own`), or after shuffles those of several lanes (`Share`).
  `Rows` says of each element what its one owner has made of it (`Written`), which is why
  no barrier is needed in kernel 3. `Cells2` and `Cells4` say what the shared arrays hold
  in each round. `Fitting` is needed because a halving of an odd width loses columns; the
  comments in `main` launch 128 threads, in warps of 32. `Dividing` extends `Rows` to
  kernel 4, which has all exponentials written by the time the first thread divides.
* *Never stuck.* `CanGoOn`, in each of the four modules, lists what can go on: a thread at
  a label where nothing is waited for, or a barrier or a shuffle with all it waits for. It
  follows from the invariants about phases. It is written without `ENABLED`, which the
  prover does not know; TLC has it equal to `ENABLED Next` in every state of the runs' instances
  (of `softmax` with three columns).
* *Steps run out.* `Left`, in the same four modules, is a number of steps a thread has left
  at most: it weighs the passes, the rounds of a reduction by their stride, the shuffles by
  their distance, and the loops by what their counter has still to go. `StepsRunOut` has
  every step lower it for some threads and raise it for none, so a launch takes no more
  steps than its size allows; TLC checked the same formula on the runs' instances. With
  `CanGoOn` this is all of `Terminates` but the fairness.

* *Tiles.* `Rounds` bounds the phases as above. `Filled` names for every cell the one
  thread that loads it and the iteration in which it does (`Loader`), from which no two
  threads meet and no cell is left out. `Added` says that a thread's sum is exactly the
  first `base + i` terms (`Terms`), with `Junk` in the place of those beyond `K`; this
  gives the ragged case and the fitting one. The refinement then is one lemma per step.
* *Loader.* `Spent` counts descriptors per finished read and unfinished step, `FromFile`
  says where `config_` comes from. `HeadsAlwaysFit` works on absolute values: `Division` is
  what rounding towards zero keeps, and `CDivSign` says that the signs multiply, which
  gives the equalities where the divisions leave no rest. For the weights `CallsStay` says
  that the layers of every call are the closed form of `Layers`, behind those of the calls
  before it, whatever is appended later; the rest is that a value without overflow is itself
  (`NoWrap`) and one just beyond becomes a huge `size_t` (`OverflowIsHuge`).
* *Layer.* `DevicesAgree` is the strengthening of `KernelReadsDevice` to inputs not yet
  launched. `SumsRight` says that what the kernel has written and the threads it has yet to run are
  together the elements and the one behind them, as far as the grid goes; `Grid` is
  the arithmetic of a grid rounded up: it covers the elements, and reaches the one behind
  them unless the elements fill its blocks.

Only model-checked: `Terminates` itself, because liveness under fairness is out of the
prover's reach. That no block is ever stuck, that its steps run out, and that the endless
kernels never end is proved.

The three statements the code does not keep have counterexamples and no theorem. What is
true instead is proved: `PoolCorrect` and `FirstPoolSurvives` for the pool, `MemorySafe`
for tensors, `SoftmaxRowMovesForward` for kernel 4.

"Power of two" is stated through divisors, because defining it by recursion would need
induction over an operator, which the prover does not do.

## 5. Plan

What is left, in this order.

1. `rmsnorm_kernel_cpu` as a kernel of one thread in `BlockReduce`.
2. The `memcpy` of `alloc_cpu.cpp` as a second reading in `AddLayer`.

## 6. Not modelled

* Logging and status texts; contents of floats beyond which inputs they contain, and
  rounding beyond the order of the terms.
* The 32-bit product in the tensor's constructor (`tensor.cpp:12`): no property of sharing
  or freeing depends on how a size was computed.
* `rmsnorm_kernel_cpu`: two loops of one thread. `base.cpp`: constant constructors.
* Launches: those of `main` in `sum.cu`, `softmax.cu` and `rmsnorm_kernel.cu` are comments,
  and `matmul.cu` has none, so grids are external; a block is what the kernels themselves
  take it to be. Streams: every call in the repository passes none, or a placeholder.
* What is declared and defined nowhere: `check`, `set_output`, the embedding and matrix
  layers, `is_empty`, `device_type`.
* The `memcpy` of `alloc_cpu.cpp`, which the CPU-only build links instead of `alloc.cpp`'s.
* The bundled GoogleTest. It makes up nearly all the lines of the repository: the
  repository's own code is some 1,900 lines, most of which the modules above map, against
  more than 40,000 of GoogleTest. A model of a vendored unit-test library would say
  nothing about this program.
