---------------------------- MODULE CudaAllocator ----------------------------
(***************************************************************************)
(* base::CUDADeviceAllocator (include/base/alloc.h, source/base/alloc_cu   *)
(* .cpp): a caching allocator that keeps released big blocks in a pool per *)
(* device and hands them out again, and the base::Buffer objects that are  *)
(* its clients: a Buffer allocates in its constructor and in               *)
(* Buffer::allocate, also when it holds a block, and releases in its       *)
(* destructor.  CUDA itself is external: cudaMalloc returns an unused      *)
(* address or fails, cudaFree gives an address back.                       *)
(*                                                                         *)
(* alloc_cu.cpp:25 declares the pool of the current device as              *)
(*     CudaMemoryBuffer big_buffers = big_buffers_map_[id];                *)
(* which has no type that compiles.  Two one-token repairs are possible    *)
(* and both are modelled: PoolAliased = TRUE binds a reference, the form   *)
(* release uses at lines 75, 93 and 117; PoolAliased = FALSE keeps the     *)
(* declaration by value, a copy whose changes are lost on return.          *)
(*                                                                         *)
(* The order of entries in a pool vector only breaks ties between equal    *)
(* sizes, so a pool is a set.  cuda_bufers_map_, the pool of small blocks, *)
(* is never written by allocate: its loops in release find nothing.        *)
(***************************************************************************)
EXTENDS Integers

CONSTANTS
  Device,        \* the CUDA device ids, compared by std::map's order
  Ptr,           \* the device addresses cudaMalloc can return
  Buffer,        \* the Buffer objects
  Size,          \* the byte sizes Buffers ask for
  BigLimit,      \* a request above it takes the big path (1024 * 1024)
  Slack,         \* a reused block wastes less than this (1024 * 1024)
  PoolAliased,   \* which repair of alloc_cu.cpp:25 (see above)
  Null           \* the null pointer, also "no device" and "no block"

(* A pool entry, and the block a Buffer owns: its address, the bytes asked  *)
(* for and the device that was current.                                    *)
CudaMemoryBuffer == [data : Ptr, byte_size : Nat]

Block == [ptr : Ptr, size : Nat, dev : Device]

ASSUME ConstantsAssumption ==
  /\ Device \subseteq Nat
  /\ Size \subseteq Nat
  /\ BigLimit \in Nat
  /\ Slack \in Nat \ {0}
  /\ PoolAliased \in BOOLEAN
  /\ Null \notin Ptr \cup Device \cup Block

VARIABLES
  current,   \* the device cudaGetDevice returns
  location,  \* CUDA's table: the device an address is allocated on, or Null
  extent,    \* CUDA's table: the size of the block at an address
  keys,      \* the devices big_buffers_map_ has an entry for
  pool,      \* big_buffers_map_: the entries of each device
  busy,      \* the entries of each device whose busy bit is set
  held,      \* the block each Buffer owns, or Null
  lost,      \* history: the addresses a Buffer overwrote before releasing them
  misfreed   \* history: the addresses cudaFree was called on in error

vars == <<current, location, extent, keys, pool, busy, held, lost, misfreed>>

Live == {p \in Ptr : location[p] # Null}

Init ==
  /\ current \in Device
  /\ location = [p \in Ptr |-> Null]
  /\ extent = [p \in Ptr |-> 0]
  /\ keys = {}
  /\ pool = [d \in Device |-> {}]
  /\ busy = [d \in Device |-> {}]
  /\ held = [b \in Buffer |-> Null]
  /\ lost = {}
  /\ misfreed = {}

-----------------------------------------------------------------------------
(* allocate *)

(* Mutants of Fitting: without the lower bound, and without !busy.          *)
FittingTooSmall(n) ==
  {e \in pool[current] \ busy[current] : e.byte_size - n < Slack}

FittingBusy(n) ==
  {e \in pool[current] : e.byte_size >= n /\ e.byte_size - n < Slack}

(* The idle entries of the current device that may serve n bytes ...       *)
Fitting(n) ==
  {e \in pool[current] \ busy[current] : /\ e.byte_size >= n
                                         /\ e.byte_size - n < Slack}

(* ... of which allocate takes one of the smallest.                        *)
BestFit(n) ==
  {e \in Fitting(n) : \A f \in Fitting(n) : e.byte_size <= f.byte_size}

(* Mutant of Occupy: the new entry is pushed with busy = false.             *)
OccupyIdle(e) ==
  /\ pool' = [pool EXCEPT ![current] = @ \cup {e}]
  /\ UNCHANGED busy

(* An entry becomes busy, a new one first joins the pool: in the map when   *)
(* big_buffers is a reference, in a copy of it that is lost otherwise.     *)
Occupy(e) ==
  IF PoolAliased
    THEN /\ pool' = [pool EXCEPT ![current] = @ \cup {e}]
         /\ busy' = [busy EXCEPT ![current] = @ \cup {e}]
    ELSE UNCHANGED <<pool, busy>>

(* ptr_ is assigned whatever it was: nobody releases the block it pointed to. *)
Overwrite(b, value) ==
  /\ held' = [held EXCEPT ![b] = value]
  /\ lost' = IF held[b] = Null THEN lost ELSE lost \cup {held[b].ptr}

Take(b, n, p) == Overwrite(b, [ptr |-> p, size |-> n, dev |-> current])

(* A new Buffer, or one whose allocation failed, asks for any size; one that *)
(* holds a block is asked to allocate again, for the bytes it was made for. *)
Asks(b, n) == held[b] # Null => n = held[b].size /\ n # 0

Begin(b, n) ==
  /\ Asks(b, n)
  /\ n > BigLimit
  /\ keys' = keys \cup {current}

Reuse(b, n) ==
  /\ Begin(b, n)
  /\ \E e \in BestFit(n) :
       /\ Occupy(e)
       /\ Take(b, n, e.data)
  /\ UNCHANGED <<current, location, extent, misfreed>>

Malloc(b, n) ==
  /\ Begin(b, n)
  /\ Fitting(n) = {}
  /\ \E p \in Ptr \ Live :
       /\ location' = [location EXCEPT ![p] = current]
       /\ extent' = [extent EXCEPT ![p] = n]
       /\ Occupy([data |-> p, byte_size |-> n])
       /\ Take(b, n, p)
  /\ UNCHANGED <<current, misfreed>>

(* cudaMalloc fails: allocate returns nullptr, the Buffer owns nothing.    *)
MallocFails(b, n) ==
  /\ Begin(b, n)
  /\ Fitting(n) = {}
  /\ Overwrite(b, Null)
  /\ UNCHANGED <<current, location, extent, pool, busy, misfreed>>

(* A request of at most BigLimit bytes reaches the end of allocate, which  *)
(* has no return statement: the pointer the caller gets is undefined.      *)
AllocateSmall(b, n) ==
  /\ Asks(b, n)
  /\ n <= BigLimit
  /\ \E p \in Ptr : Take(b, n, p)
  /\ UNCHANGED <<current, location, extent, keys, pool, busy, misfreed>>

-----------------------------------------------------------------------------
(* release *)

Has(d, p) == \E e \in pool[d] : e.data = p

(* Mutant of FreeingDevices: cudaFree before the search in the device.      *)
FreeingDevicesHome(p) == {d \in keys : \A c \in keys : c < d => ~Has(c, p)}

(* Mutant of FreeingDevices: only devices from the block's own on.          *)
FreeingDevicesBehind(p) == {d \in keys : \E c \in keys : c <= d /\ Has(c, p)}

(* The loop over the map stops at the first device whose pool has p and    *)
(* calls cudaFree(p) for every device it passes before that one.           *)
FreeingDevices(p) == {d \in keys : \A c \in keys : c <= d => ~Has(c, p)}

HomeDevices(p) == {d \in keys : Has(d, p) /\ \A c \in keys : c < d => ~Has(c, p)}

(* Mutant of MarkIdle: the busy bit stays set.                             *)
MarkIdleNever(p) == UNCHANGED busy

MarkIdle(p) ==
  \/ /\ HomeDevices(p) = {}
     /\ UNCHANGED busy
  \/ \E d \in HomeDevices(p) : \E e \in pool[d] :
       /\ e.data = p
       /\ busy' = [busy EXCEPT ![d] = @ \ {e}]

(* Every cudaFree after the first one, and one of an address that is not   *)
(* allocated, is an error that release ignores.                            *)
CudaFree(p) ==
  /\ location' = IF FreeingDevices(p) = {} THEN location
                                           ELSE [location EXCEPT ![p] = Null]
  /\ misfreed' = IF \E c, d \in FreeingDevices(p) : c # d \/ location[p] = Null
                   THEN misfreed \cup {p} ELSE misfreed

(* Mutant of Release: the Buffer keeps its pointer.                        *)
ReleaseKeepsPointer(b) ==
  /\ held[b] # Null
  /\ MarkIdle(held[b].ptr)
  /\ CudaFree(held[b].ptr)
  /\ UNCHANGED <<current, extent, keys, pool, held, lost>>

Release(b) ==
  /\ held[b] # Null
  /\ MarkIdle(held[b].ptr)
  /\ CudaFree(held[b].ptr)
  /\ held' = [held EXCEPT ![b] = Null]
  /\ UNCHANGED <<current, extent, keys, pool, lost>>

(* The application selects another device.                                 *)
SetDevice(d) ==
  /\ d # current
  /\ current' = d
  /\ UNCHANGED <<location, extent, keys, pool, busy, held, lost, misfreed>>

Next ==
  \/ \E b \in Buffer, n \in Size :
       \/ Reuse(b, n)
       \/ Malloc(b, n)
       \/ MallocFails(b, n)
       \/ AllocateSmall(b, n)
  \/ \E b \in Buffer : Release(b)
  \/ \E d \in Device : SetDevice(d)

Spec == Init /\ [][Next]_vars

-----------------------------------------------------------------------------
(* The tables of CUDA, of the allocator and of the Buffers keep their      *)
(* shape.                                                                  *)
TypeOK ==
  /\ current \in Device
  /\ location \in [Ptr -> Device \cup {Null}]
  /\ extent \in [Ptr -> Nat]
  /\ keys \subseteq Device
  /\ pool \in [Device -> SUBSET CudaMemoryBuffer]
  /\ busy \in [Device -> SUBSET CudaMemoryBuffer]
  /\ held \in [Buffer -> Block \cup {Null}]
  /\ lost \subseteq Ptr
  /\ misfreed \subseteq Ptr

Holds(b, p) == held[b] # Null /\ held[b].ptr = p

(* No block of device memory belongs to two Buffers: reuse out of the pool *)
(* never hands out a block that has not been released.                     *)
Exclusive ==
  \A b, c \in Buffer : \A p \in Ptr : Holds(b, p) /\ Holds(c, p) => b = c

(* What a Buffer holds is allocated, on the device that was current when   *)
(* it asked, has the bytes it asked for and wastes less than Slack, however *)
(* many owners the block has had before.                                   *)
HeldIsBacked ==
  \A b \in Buffer : held[b] # Null =>
    /\ location[held[b].ptr] = held[b].dev
    /\ held[b].size <= extent[held[b].ptr]
    /\ extent[held[b].ptr] - held[b].size < Slack

(* The pools agree with CUDA's table and with the owners: an entry stands  *)
(* for one allocated block of its size, no block has two entries, and the  *)
(* busy bit is set exactly while some Buffer holds the block, and for good *)
(* once a Buffer has overwritten its pointer (alloc_cu.cpp:25-60, 122,     *)
(* buffer.cpp:29): such a block is never handed out again.                 *)
PoolIsExact ==
  \A d \in Device : \A e \in pool[d] :
    /\ location[e.data] = d
    /\ extent[e.data] = e.byte_size
    /\ (e \in busy[d]) <=> (\E b \in Buffer : Holds(b, e.data)) \/ e.data \in lost
    /\ e.data \in lost => \A b \in Buffer : ~Holds(b, e.data)
    /\ \A f \in pool[d] : f.data = e.data => f = e

(* The only way to lose device memory is Buffer::allocate on a Buffer that  *)
(* holds a block (buffer.cpp:26-41): every other allocated block has an     *)
(* owner that will release it or is idle in a pool that can hand it out    *)
(* again.                                                                  *)
NoLeak ==
  \A p \in Live \ lost :
    \/ \E b \in Buffer : Holds(b, p)
    \/ \E d \in Device : \E e \in pool[d] \ busy[d] : e.data = p

(* What every Buffer relies on when it releases: the map has an entry for  *)
(* the device of its block and, if allocate fills the pool, the pool has   *)
(* the block.                                                              *)
HeldIsKnown ==
  \A b \in Buffer : held[b] # Null =>
    /\ held[b].dev \in keys
    /\ PoolAliased => Has(held[b].dev, held[b].ptr)

(* Until a second device is used, release never calls cudaFree twice for a  *)
(* block, nor for one that is not allocated (alloc_cu.cpp:127 is inside the *)
(* loop over the devices).                                                 *)
FreedOnce == (\A c, d \in keys : c = d) => misfreed = {}

(* A block in a pool stays allocated: release gives memory back to CUDA    *)
(* only for blocks outside the pools (alloc_cu.cpp:87-91 frees pooled      *)
(* blocks under a condition of its own, more than 1 GB idle).              *)
PooledIsAllocated ==
  \A d \in Device : \A e \in pool[d] : location[e.data] = d

(* The same for the device whose entry the map's loop meets first: its     *)
(* blocks are never freed behind the pool's back, whatever pointer is      *)
(* released and on whatever device.                                        *)
FirstPoolIsAllocated ==
  \A d \in Device : (\A c \in Device : d <= c) =>
    \A e \in pool[d] : location[e.data] = d

(* What the allocator promises, whatever it caches: see DeviceMemory.      *)
Contract == INSTANCE DeviceMemory WITH live <- Live

ImplementsDeviceMemory == Contract!Spec
=============================================================================
