---------------------------- MODULE TensorMemory -----------------------------
(***************************************************************************)
(* Host memory: base::CPUDeviceAllocator (source/base/alloc_cpu.cpp), the  *)
(* base::Buffer objects over it (source/base/buffer.cpp) and the tensors   *)
(* that share them (source/tensor/tensor.cpp, source/op/layer.cpp).        *)
(*                                                                         *)
(* Buffers are reached through shared_ptrs only: a Buffer is destroyed in  *)
(* the step that drops or redirects its last owner.  The owners are the    *)
(* tensors (layer inputs and weights are tensors too) and the handles, the *)
(* shared_ptr<Buffer> variables of the application.                        *)
(***************************************************************************)
EXTENDS Integers

CONSTANTS
  Tensor,    \* the tensor objects
  Handle,    \* the application's shared_ptr<Buffer> variables
  Buffer,    \* the Buffer objects
  Addr,      \* the addresses malloc can return
  Foreign,   \* memory the application owns, null included
  Bytes,     \* the byte sizes of Buffers and tensors
  Null       \* the null pointer, and an empty shared_ptr

Owner == Tensor \cup Handle

(* use_external_ and allocator_ take two of their four combinations: with   *)
(* an allocator and managed by the Buffer, or external and without one.    *)
BufferRec ==
  [ptr : Addr \cup Foreign, byte_size : Nat, kind : {"managed", "external"}]

ASSUME MemoryAssumption ==
  /\ Bytes \subseteq Nat
  /\ Null \in Foreign
  /\ Addr \cap Foreign = {}
  /\ Tensor \cap Handle = {}
  /\ Null \notin Buffer \cup BufferRec

VARIABLES
  heap,      \* the size of the block malloc returned at an address, 0: none
  buffer,    \* the Buffer objects, Null when not alive
  ref,       \* the Buffer each owner points to
  size,      \* byte_size() of each tensor, 0 also before its construction
  promised,  \* history: the tensors whose last allocate returned true
  replaced   \* history: the blocks whose pointer Buffer::allocate overwrote

vars == <<heap, buffer, ref, size, promised, replaced>>

Init ==
  /\ heap = [a \in Addr |-> 0]
  /\ buffer = [b \in Buffer |-> Null]
  /\ ref = [o \in Owner |-> Null]
  /\ size = [t \in Tensor |-> 0]
  /\ promised = {}
  /\ replaced = {}

-----------------------------------------------------------------------------
(* CPUDeviceAllocator::allocate: malloc may fail, and is not asked for 0.   *)
Malloc(n) ==
  {Null} \cup (IF n = 0 THEN {} ELSE {a \in Addr : heap[a] = 0})

(* What the owner o leaves behind when it stops pointing to its Buffer: the *)
(* Buffer, if o was its last owner, and the block its destructor releases. *)
Dying(o) ==
  {b \in Buffer : ref[o] = b /\ \A q \in Owner \ {o} : ref[q] # b}

(* Mutants of Freed: nothing, and external memory instead of managed.       *)
FreedNever(o) == {}

FreedInverted(o) ==
  {a \in Addr \cup Foreign :
     \E b \in Dying(o) : buffer[b].kind = "external" /\ buffer[b].ptr = a} \ {Null}

Freed(o) ==
  {a \in Addr \cup Foreign :
     \E b \in Dying(o) : buffer[b].kind = "managed" /\ buffer[b].ptr = a} \ {Null}

(* o points to b, which is a new Buffer if rec is one, and its old Buffer  *)
(* goes; a new managed Buffer has its block before the old one is freed.   *)
Redirect(o, b, rec) ==
  /\ ref' = [ref EXCEPT ![o] = b]
  /\ buffer' = [c \in Buffer |-> IF c = b /\ rec # Null THEN rec
                                 ELSE IF c \in Dying(o) THEN Null
                                 ELSE buffer[c]]
  /\ heap' = [a \in Addr |->
               IF rec # Null /\ rec.kind = "managed" /\ rec.ptr = a THEN rec.byte_size
               ELSE IF a \in Freed(o) THEN 0
               ELSE heap[a]]

Managed(p, n) == [ptr |-> p, byte_size |-> n, kind |-> "managed"]

External(p, n) == [ptr |-> p, byte_size |-> n, kind |-> "external"]

Unused(b) == buffer[b] = Null

-----------------------------------------------------------------------------
(* The application's Buffers *)

BufferNew(h, b, n) ==
  /\ ref[h] = Null
  /\ Unused(b)
  /\ \E p \in Malloc(n) : Redirect(h, b, Managed(p, n))
  /\ UNCHANGED <<size, promised, replaced>>

BufferView(h, b, n, f) ==
  /\ ref[h] = Null
  /\ Unused(b)
  /\ Redirect(h, b, External(f, n))
  /\ UNCHANGED <<size, promised, replaced>>

(* Mutant of BufferAllocate: the old block is freed, and the pointer to it  *)
(* kept when malloc fails.                                                 *)
BufferAllocateFreesFirst(h) ==
  /\ ref[h] # Null
  /\ buffer[ref[h]].kind = "managed"
  /\ buffer[ref[h]].byte_size # 0
  /\ \E p \in Malloc(buffer[ref[h]].byte_size) :
       /\ buffer' = IF p = Null THEN buffer ELSE [buffer EXCEPT ![ref[h]].ptr = p]
       /\ heap' = [a \in Addr |-> IF a = p THEN buffer[ref[h]].byte_size
                                  ELSE IF a = buffer[ref[h]].ptr THEN 0
                                  ELSE heap[a]]
  /\ UNCHANGED <<ref, size, promised, replaced>>

(* Buffer::allocate replaces the pointer whatever it was.                   *)
BufferAllocate(h) ==
  /\ ref[h] # Null
  /\ buffer[ref[h]].kind = "managed"
  /\ buffer[ref[h]].byte_size # 0
  /\ \E p \in Malloc(buffer[ref[h]].byte_size) :
       /\ buffer' = [buffer EXCEPT ![ref[h]].ptr = p]
       /\ heap' = [a \in Addr |-> IF a = p THEN buffer[ref[h]].byte_size ELSE heap[a]]
  /\ replaced' = replaced \cup ({buffer[ref[h]].ptr} \cap Addr)
  /\ UNCHANGED <<ref, size, promised>>

-----------------------------------------------------------------------------
(* Tensors *)

NotBuilt(t) == ref[t] = Null /\ size[t] = 0

(* The constructor with an allocator: allocate, whose result it ignores.    *)
TensorNew(t, b, n) ==
  /\ NotBuilt(t)
  /\ n # 0
  /\ Unused(b)
  /\ \E p \in Malloc(n) : Redirect(t, b, Managed(p, n))
  /\ size' = [size EXCEPT ![t] = n]
  /\ UNCHANGED <<promised, replaced>>

(* ... without one, told not to allocate: a view of memory it is given.     *)
(* LayerParam::set_weight makes such a tensor over the weights.            *)
TensorView(t, b, n, f) ==
  /\ NotBuilt(t)
  /\ Unused(b)
  /\ Redirect(t, b, External(f, n))
  /\ size' = [size EXCEPT ![t] = n]
  /\ UNCHANGED <<promised, replaced>>

(* ... without one, told to allocate: the tensor stays without a Buffer.    *)
TensorUnbacked(t, n) ==
  /\ NotBuilt(t)
  /\ size' = [size EXCEPT ![t] = n]
  /\ UNCHANGED <<heap, buffer, ref, promised, replaced>>

Sufficient(t) == ref[t] # Null /\ size[t] <= buffer[ref[t]].byte_size

(* Tensor::allocate, when the Buffer is kept ...                           *)
TensorKeep(t) ==
  /\ size[t] # 0
  /\ Sufficient(t)
  /\ promised' = promised \cup {t}
  /\ UNCHANGED <<heap, buffer, ref, size, replaced>>

(* Mutant of TensorAllocate: the Buffer it has, shared or not, gets the new *)
(* block in place.                                                         *)
TensorAllocateInPlace(t, b, need_realloc) ==
  /\ size[t] # 0
  /\ ref[t] # Null
  /\ Sufficient(t) => need_realloc
  /\ \E p \in Malloc(size[t]) :
       /\ buffer' = [buffer EXCEPT ![ref[t]] = Managed(p, size[t])]
       /\ heap' = [a \in Addr |-> IF a = p THEN size[t]
                                  ELSE IF Managed(a, buffer[ref[t]].byte_size) = buffer[ref[t]] THEN 0
                                  ELSE heap[a]]
       /\ promised' = IF p = Null THEN promised \ {t} ELSE promised \cup {t}
  /\ UNCHANGED <<ref, size, replaced>>

(* ... and when a new one replaces it (need_realloc, or none before).       *)
TensorAllocate(t, b, need_realloc) ==
  /\ size[t] # 0
  /\ Sufficient(t) => need_realloc
  /\ Unused(b)
  /\ \E p \in Malloc(size[t]) :
       /\ Redirect(t, b, Managed(p, size[t]))
       /\ promised' = IF p = Null THEN promised \ {t} ELSE promised \cup {t}
  /\ UNCHANGED <<size, replaced>>

(* Mutant of TensorCopy: the Buffer is not taken along.                     *)
TensorCopySize(t, u) ==
  /\ t # u
  /\ size' = [size EXCEPT ![t] = size[u]]
  /\ UNCHANGED <<heap, buffer, ref, promised, replaced>>

(* t = u, also Layer::set_input: the Buffer is shared.                     *)
TensorCopy(t, u) ==
  /\ t # u
  /\ Redirect(t, ref[u], Null)
  /\ size' = [size EXCEPT ![t] = size[u]]
  /\ promised' = IF u \in promised THEN promised \cup {t} ELSE promised \ {t}
  /\ UNCHANGED replaced

TensorDrop(t) ==
  /\ ~NotBuilt(t)
  /\ Redirect(t, Null, Null)
  /\ size' = [size EXCEPT ![t] = 0]
  /\ promised' = promised \ {t}
  /\ UNCHANGED replaced

HandleCopy(h, k) ==
  /\ h # k
  /\ Redirect(h, ref[k], Null)
  /\ UNCHANGED <<size, promised, replaced>>

HandleDrop(h) ==
  /\ ref[h] # Null
  /\ Redirect(h, Null, Null)
  /\ UNCHANGED <<size, promised, replaced>>

HandleStep(h) ==
  \/ \E b \in Buffer, n \in Bytes :
       \/ BufferNew(h, b, n)
       \/ \E f \in Foreign : BufferView(h, b, n, f)
  \/ BufferAllocate(h)
  \/ \E k \in Handle : HandleCopy(h, k)
  \/ HandleDrop(h)

TensorStep(t) ==
  \/ \E n \in Bytes :
       \/ \E b \in Buffer : TensorNew(t, b, n)
       \/ \E b \in Buffer, f \in Foreign : TensorView(t, b, n, f)
       \/ TensorUnbacked(t, n)
  \/ TensorKeep(t)
  \/ \E b \in Buffer, need_realloc \in BOOLEAN : TensorAllocate(t, b, need_realloc)
  \/ \E u \in Tensor : TensorCopy(t, u)
  \/ TensorDrop(t)

Next == (\E h \in Handle : HandleStep(h)) \/ (\E t \in Tensor : TensorStep(t))

Spec == Init /\ [][Next]_vars

-----------------------------------------------------------------------------
(* Heap, Buffers and owners keep their shape.                              *)
TypeOK ==
  /\ heap \in [Addr -> Nat]
  /\ buffer \in [Buffer -> BufferRec \cup {Null}]
  /\ ref \in [Owner -> Buffer \cup {Null}]
  /\ size \in [Tensor -> Nat]
  /\ promised \subseteq Tensor
  /\ replaced \subseteq Addr

Manages(b, a) ==
  buffer[b] # Null /\ buffer[b].kind = "managed" /\ buffer[b].ptr = a

(* Whoever reads through a Buffer reads memory that is there: an owner's    *)
(* Buffer is alive, a managed pointer is null or a block of the Buffer's   *)
(* size that no other Buffer manages (buffer.cpp:13, 20, 29).              *)
OwnersReadLiveMemory ==
  /\ \A o \in Owner : ref[o] # Null => buffer[ref[o]] # Null
  /\ \A b \in Buffer, a \in Addr :
       Manages(b, a) => heap[a] # 0 /\ heap[a] = buffer[b].byte_size
  /\ \A b, c \in Buffer, a \in Addr : Manages(b, a) /\ Manages(c, a) => b = c

(* The memory under a tensor is as large as the tensor: index and the       *)
(* kernels go up to size() (tensor.h:43-57).                               *)
TensorsFit ==
  \A t \in Tensor : ref[t] # Null => size[t] <= buffer[ref[t]].byte_size

(* A destructor releases blocks of the heap only: never memory of the       *)
(* application, never a block twice (buffer.cpp:18-20).                    *)
OnlyHeapIsFreed ==
  \A o \in Owner : \A a \in Freed(o) : a \in Addr /\ heap[a] # 0

(* No block is lost but those Buffer::allocate overwrites the pointer to:   *)
(* every other one is managed by a Buffer that has an owner (comment at     *)
(* alloc_cpu.cpp:32, buffer.cpp:23-31).                                     *)
NoLeak ==
  \A a \in Addr : heap[a] # 0 /\ a \notin replaced =>
    \E b \in Buffer : Manages(b, a) /\ \E o \in Owner : ref[o] = b

(* While an owner keeps its Buffer, nothing the others do frees its memory, *)
(* however the Buffer is shared; nor does its pointer move, unless a        *)
(* shared_ptr of the application through which Buffer::allocate can be      *)
(* called points to that Buffer.                                           *)
MemoryStaysPut ==
  [][\A o \in Owner : ref[o] # Null /\ ref'[o] = ref[o] =>
       /\ (\A h \in Handle : ref[h] # ref[o]) => buffer'[ref[o]] = buffer[ref[o]]
       /\ \A a \in Addr : Manages(ref[o], a) => heap'[a] = heap[a]]_vars

(* A tensor whose allocate returned true has memory (tensor.cpp:43-46       *)
(* reports null memory as an error).                                       *)
PromisedHasMemory ==
  \A t \in promised : ref[t] # Null /\ buffer[ref[t]].ptr # Null
=============================================================================
