------------------------- MODULE TensorMemoryProofs --------------------------
(***************************************************************************)
(* Proofs about TensorMemory, for any number of tensors, handles, Buffers, *)
(* addresses and sizes.                                                    *)
(***************************************************************************)
EXTENDS TensorMemory, TLAPS

(* Tables and Buffers keep their shape, apart from the tensors' sizes; a    *)
(* managed Buffer never points to memory of the application.               *)
Shape ==
  /\ heap \in [Addr -> Nat]
  /\ buffer \in [Buffer -> BufferRec \cup {Null}]
  /\ ref \in [Owner -> Buffer \cup {Null}]
  /\ \A b \in Buffer : buffer[b] # Null /\ buffer[b].kind = "managed" =>
       buffer[b].ptr \in Addr \cup {Null}

(* A Buffer is alive exactly while it has an owner.                        *)
Counted == \A b \in Buffer : buffer[b] # Null <=> \E o \in Owner : ref[o] = b

Backed ==
  \A b \in Buffer, a \in Addr :
    Manages(b, a) => heap[a] # 0 /\ heap[a] = buffer[b].byte_size

SoleManager ==
  \A b, c \in Buffer, a \in Addr : Manages(b, a) /\ Manages(c, a) => b = c

CoreInv == Shape /\ Counted /\ Backed /\ SoleManager

(* What a step may redirect an owner to: nothing, a Buffer some other owner *)
(* has, or a new Buffer over fresh or foreign memory.                      *)
Legal(o, b, rec) ==
  \/ /\ rec = Null
     /\ b = Null \/ (b \in Buffer /\ \E u \in Owner \ {o} : ref[u] = b)
  \/ /\ rec \in BufferRec
     /\ b \in Buffer
     /\ Unused(b)
     /\ \/ rec.kind = "managed" /\ rec.ptr \in Malloc(rec.byte_size)
        \/ rec.kind = "external" /\ rec.ptr \in Foreign

(* The blocks freed with a Buffer are those it manages.                    *)
LEMMA FreedIsManaged ==
  ASSUME CoreInv, NEW o \in Owner
  PROVE  /\ \A a \in Addr : a \in Freed(o) <=> \E c \in Dying(o) : Manages(c, a)
         /\ \A a \in Freed(o) : a \in Addr /\ heap[a] # 0
<1> USE MemoryAssumption DEF MemoryAssumption
<1>1. \A c \in Dying(o) : c \in Buffer /\ buffer[c] # Null
  BY DEF Dying, CoreInv, Counted
<1>2. \A a \in Addr : a \in Freed(o) <=> \E c \in Dying(o) : Manages(c, a)
  BY <1>1 DEF Freed, Manages
<1>3. \A a \in Freed(o) : a \in Addr
  BY <1>1 DEF Freed, CoreInv, Shape
<1>4. QED
  BY <1>1, <1>2, <1>3 DEF CoreInv, Backed

(* The destructor never frees foreign memory nor a block twice.            *)
LEMMA CoreFreesHeapOnly == CoreInv => OnlyHeapIsFreed
BY FreedIsManaged DEF OnlyHeapIsFreed

(* The state after an owner has been redirected, Buffer by Buffer and       *)
(* address by address.                                                     *)
LEMMA RedirectEffect ==
  ASSUME CoreInv, NEW o \in Owner, NEW b, NEW rec, Legal(o, b, rec),
         Redirect(o, b, rec)
  PROVE  /\ b \in Buffer \cup {Null}
         /\ b \notin Dying(o)
         /\ \A q \in Owner : ref'[q] = IF q = o THEN b ELSE ref[q]
         /\ \A c \in Buffer :
              buffer'[c] = IF c = b /\ rec # Null THEN rec
                           ELSE IF c \in Dying(o) THEN Null ELSE buffer[c]
         /\ \A c \in Buffer, a \in Addr :
              Manages(c, a)' <=>
                IF c = b /\ rec # Null THEN rec.kind = "managed" /\ rec.ptr = a
                                       ELSE c \notin Dying(o) /\ Manages(c, a)
         /\ \A a \in Addr :
              rec # Null /\ rec.kind = "managed" /\ rec.ptr = a =>
                heap[a] = 0 /\ heap'[a] = rec.byte_size /\ rec.byte_size # 0
         /\ \A a \in Addr :
              ~(rec # Null /\ rec.kind = "managed" /\ rec.ptr = a) =>
                heap'[a] = IF a \in Freed(o) THEN 0 ELSE heap[a]
<1> USE MemoryAssumption DEF MemoryAssumption
<1>1. /\ b \in Buffer \cup {Null}
      /\ b \notin Dying(o)
      /\ rec = Null \/ rec \in BufferRec
  BY DEF Legal, Dying, Unused, CoreInv, Counted
<1>2. /\ ref' = [ref EXCEPT ![o] = b]
      /\ buffer' = [c \in Buffer |-> IF c = b /\ rec # Null THEN rec
                                     ELSE IF c \in Dying(o) THEN Null
                                     ELSE buffer[c]]
      /\ heap' = [a \in Addr |->
               IF rec # Null /\ rec.kind = "managed" /\ rec.ptr = a THEN rec.byte_size
               ELSE IF a \in Freed(o) THEN 0
               ELSE heap[a]]
  BY DEF Redirect
<1>3. \A q \in Owner : ref'[q] = IF q = o THEN b ELSE ref[q]
  BY <1>2 DEF CoreInv, Shape
<1>4. \A c \in Buffer :
        buffer'[c] = IF c = b /\ rec # Null THEN rec
                     ELSE IF c \in Dying(o) THEN Null ELSE buffer[c]
  BY <1>2
<1>5. \A c \in Buffer, a \in Addr :
        Manages(c, a)' <=>
          IF c = b /\ rec # Null THEN rec.kind = "managed" /\ rec.ptr = a
                                 ELSE c \notin Dying(o) /\ Manages(c, a)
  BY <1>4 DEF Manages
<1>6. ASSUME NEW a \in Addr, rec # Null, rec.kind = "managed", rec.ptr = a
      PROVE  heap[a] = 0 /\ heap'[a] = rec.byte_size /\ rec.byte_size # 0
  BY <1>2, <1>6 DEF Legal, Malloc
<1>7. ASSUME NEW a \in Addr, ~(rec # Null /\ rec.kind = "managed" /\ rec.ptr = a)
      PROVE  heap'[a] = IF a \in Freed(o) THEN 0 ELSE heap[a]
  BY <1>2, <1>7
<1>8. QED
  BY <1>1, <1>3, <1>4, <1>5, <1>6, <1>7

(* An owner that points where it pointed reads what it read.               *)
LEMMA RedirectKeeps ==
  ASSUME CoreInv, NEW o \in Owner, NEW b, NEW rec, Legal(o, b, rec),
         Redirect(o, b, rec),
         NEW q \in Owner, ref[q] # Null, ref'[q] = ref[q]
  PROVE  /\ buffer'[ref[q]] = buffer[ref[q]]
         /\ \A a \in Addr : Manages(ref[q], a) => heap'[a] = heap[a]
<1> USE MemoryAssumption DEF MemoryAssumption
<1>1. PICK c \in Buffer : c = ref[q] /\ buffer[c] # Null
  BY DEF CoreInv, Shape, Counted
<1>2. c \notin Dying(o)
  <2>1. CASE q = o
    BY <1>1, <2>1, RedirectEffect
  <2>2. CASE q # o
    BY <1>1, <2>2 DEF Dying
  <2>3. QED
    BY <2>1, <2>2
<1>3. rec # Null => c # b
  BY <1>1 DEF Legal, Unused
<1>4. buffer'[c] = buffer[c]
  BY <1>2, <1>3, RedirectEffect
<1>5. ASSUME NEW a \in Addr, Manages(c, a)
      PROVE  heap'[a] = heap[a]
  <2>1. heap[a] # 0
    BY <1>5 DEF CoreInv, Backed
  <2>2. a \notin Freed(o)
    BY <1>2, <1>5, FreedIsManaged DEF CoreInv, SoleManager, Dying
  <2>3. QED
    BY <2>1, <2>2, RedirectEffect
<1>6. QED
  BY <1>1, <1>4, <1>5

(* Redirecting an owner keeps the core invariant.                          *)
LEMMA RedirectCore ==
  ASSUME CoreInv, NEW o \in Owner, NEW b, NEW rec, Legal(o, b, rec),
         Redirect(o, b, rec)
  PROVE  CoreInv'
<1> USE MemoryAssumption DEF MemoryAssumption
<1>1. rec = Null \/ rec \in BufferRec
  BY DEF Legal
<1>2. Shape'
  <2>1. heap' \in [Addr -> Nat]
    BY <1>1 DEF Redirect, CoreInv, Shape, BufferRec
  <2>2. buffer' \in [Buffer -> BufferRec \cup {Null}]
    BY <1>1 DEF Redirect, CoreInv, Shape
  <2>3. ref' \in [Owner -> Buffer \cup {Null}]
    BY RedirectEffect DEF Redirect, CoreInv, Shape
  <2>4. ASSUME NEW c \in Buffer, buffer'[c] # Null, buffer'[c].kind = "managed"
        PROVE  buffer'[c].ptr \in Addr \cup {Null}
    <3>1. CASE c = b /\ rec # Null
      BY <2>4, <3>1, RedirectEffect DEF Legal, Malloc
    <3>2. CASE ~(c = b /\ rec # Null)
      BY <2>4, <3>2, RedirectEffect DEF CoreInv, Shape
    <3>3. QED
      BY <3>1, <3>2
  <2>5. QED
    BY <2>1, <2>2, <2>3, <2>4 DEF Shape
<1>3. Counted'
  <2> SUFFICES ASSUME NEW c \in Buffer
               PROVE  buffer'[c] # Null <=> \E q \in Owner : ref'[q] = c
    BY DEF Counted
  <2>1. CASE c = b /\ rec # Null
    BY <1>1, <2>1, RedirectEffect
  <2>2. CASE ~(c = b /\ rec # Null) /\ c \in Dying(o)
    <3>1. buffer'[c] = Null /\ c # b
      BY <2>2, RedirectEffect
    <3>2. \A q \in Owner : ref'[q] # c
      BY <2>2, <3>1, RedirectEffect DEF Dying
    <3>3. QED
      BY <3>1, <3>2
  <2>3. CASE ~(c = b /\ rec # Null) /\ c \notin Dying(o)
    <3>1. buffer'[c] = buffer[c]
      BY <2>3, RedirectEffect
    <3>2. buffer[c] # Null => \E q \in Owner : ref'[q] = c
      <4>1. SUFFICES ASSUME buffer[c] # Null
                     PROVE  \E q \in Owner : ref'[q] = c
        OBVIOUS
      <4>2. \E q \in Owner \ {o} : ref[q] = c
        BY <2>3, <4>1 DEF CoreInv, Counted, Dying
      <4>3. QED
        BY <4>2, RedirectEffect
    <3>3. ASSUME NEW q \in Owner, ref'[q] = c
          PROVE  \E u \in Owner : ref[u] = c
      <4>1. CASE q = o
        BY <2>3, <3>3, <4>1, RedirectEffect DEF Legal
      <4>2. CASE q # o
        BY <3>3, <4>2, RedirectEffect
      <4>3. QED
        BY <4>1, <4>2
    <3>4. QED
      BY <3>1, <3>2, <3>3 DEF CoreInv, Counted
  <2>4. QED
    BY <2>1, <2>2, <2>3
<1>4. Backed'
  <2> SUFFICES ASSUME NEW c \in Buffer, NEW a \in Addr, Manages(c, a)'
               PROVE  heap'[a] # 0 /\ heap'[a] = buffer'[c].byte_size
    BY DEF Backed
  <2>1. CASE c = b /\ rec # Null
    BY <2>1, RedirectEffect
  <2>2. CASE ~(c = b /\ rec # Null)
    <3>1. c \notin Dying(o) /\ Manages(c, a) /\ buffer'[c] = buffer[c]
      BY <2>2, RedirectEffect
    <3>2. heap[a] # 0 /\ heap[a] = buffer[c].byte_size
      BY <3>1 DEF CoreInv, Backed
    <3>3. a \notin Freed(o)
      BY <3>1, FreedIsManaged DEF CoreInv, SoleManager, Dying
    <3>4. heap'[a] = heap[a]
      BY <3>2, <3>3, RedirectEffect
    <3>5. QED
      BY <3>1, <3>2, <3>4
  <2>3. QED
    BY <2>1, <2>2
<1>5. SoleManager'
  <2> SUFFICES ASSUME NEW c \in Buffer, NEW d \in Buffer, NEW a \in Addr,
                      Manages(c, a)', Manages(d, a)'
               PROVE  c = d
    BY DEF SoleManager
  <2>1. \A e \in Buffer : Manages(e, a)' =>
          IF e = b /\ rec # Null THEN heap[a] = 0 ELSE Manages(e, a) /\ heap[a] # 0
    BY RedirectEffect DEF CoreInv, Backed
  <2>2. QED
    BY <2>1 DEF CoreInv, SoleManager
<1>6. QED
  BY <1>2, <1>3, <1>4, <1>5 DEF CoreInv

(* While every block has a manager with an owner, redirecting loses none.   *)
LEMMA RedirectLosesNothing ==
  ASSUME CoreInv, NoLeak, NEW o \in Owner, NEW b, NEW rec, Legal(o, b, rec),
         Redirect(o, b, rec), UNCHANGED replaced
  PROVE  NoLeak'
<1> USE MemoryAssumption DEF MemoryAssumption
<1> SUFFICES ASSUME NEW a \in Addr, heap'[a] # 0, a \notin replaced
             PROVE  \E c \in Buffer : Manages(c, a)' /\ \E q \in Owner : ref'[q] = c
  BY DEF NoLeak
<1>1. \A c \in Buffer : buffer'[c] # Null => \E q \in Owner : ref'[q] = c
  BY RedirectCore DEF CoreInv, Counted
<1>2. \A c \in Buffer : Manages(c, a)' => buffer'[c] # Null
  BY DEF Manages
<1>3. \E c \in Buffer : Manages(c, a)'
  <2>1. CASE rec # Null /\ rec.kind = "managed" /\ rec.ptr = a
    <3>1. b \in Buffer
      BY <2>1 DEF Legal
    <3>2. QED
      BY <2>1, <3>1, RedirectEffect
  <2>2. CASE ~(rec # Null /\ rec.kind = "managed" /\ rec.ptr = a)
    <3>1. heap[a] # 0 /\ a \notin Freed(o)
      BY <2>2, RedirectEffect
    <3>2. PICK c \in Buffer : Manages(c, a)
      BY <3>1 DEF NoLeak
    <3>3. c \notin Dying(o)
      BY <3>1, <3>2, FreedIsManaged
    <3>4. rec # Null => c # b
      BY <3>2 DEF Legal, Unused, Manages
    <3>5. QED
      BY <3>2, <3>3, <3>4, RedirectEffect
  <2>3. QED
    BY <2>1, <2>2
<1>4. QED
  BY <1>1, <1>2, <1>3
-----------------------------------------------------------------------------
(* The records the actions build.                                          *)
LEMMA Records ==
  ASSUME NEW n \in Nat
  PROVE  /\ \A p \in Malloc(n) : /\ Managed(p, n) \in BufferRec
                                 /\ Managed(p, n).kind = "managed"
                                 /\ Managed(p, n).ptr = p
                                 /\ Managed(p, n).byte_size = n
         /\ \A f \in Foreign : /\ External(f, n) \in BufferRec
                               /\ External(f, n).kind = "external"
                               /\ External(f, n).ptr = f
                               /\ External(f, n).byte_size = n
BY MemoryAssumption DEF MemoryAssumption, Malloc, Managed, External, BufferRec

(* A step that changes the heap, a Buffer or an owner redirects one owner,  *)
(* or is Buffer::allocate.                                                 *)
Redirects(o, b, rec) == Legal(o, b, rec) /\ Redirect(o, b, rec)

(* A step of a tensor redirects it or changes neither heap nor Buffers, and *)
(* gives it no more bytes than the Buffer it ends with has.                *)
LEMMA TensorStepRedirects ==
  ASSUME TypeOK, CoreInv, TensorsFit, NEW t \in Tensor, TensorStep(t)
  PROVE  /\ \/ \E b, rec : Redirects(t, b, rec)
            \/ UNCHANGED <<heap, buffer, ref>>
         /\ TensorsFit'
         /\ size' \in [Tensor -> Nat] /\ promised' \subseteq Tensor
         /\ UNCHANGED replaced
<1> USE MemoryAssumption DEF MemoryAssumption
<1>0. t \in Owner
  BY DEF Owner
<1>1. ASSUME NEW b, NEW rec, NEW n \in Nat, Redirects(t, b, rec),
             size' = [size EXCEPT ![t] = n],
             b # Null => n <= buffer'[b].byte_size
      PROVE  TensorsFit'
  <2> SUFFICES ASSUME NEW u \in Tensor, ref'[u] # Null
               PROVE  size'[u] <= buffer'[ref'[u]].byte_size
    BY DEF TensorsFit
  <2>1. CASE u = t
    BY <1>0, <1>1, <2>1, RedirectEffect DEF Redirects, TypeOK
  <2>2. CASE u # t
    <3>1. u \in Owner /\ ref'[u] = ref[u] /\ size'[u] = size[u]
      BY <1>0, <1>1, <2>2, RedirectEffect DEF Redirects, TypeOK, Owner
    <3>2. buffer'[ref[u]] = buffer[ref[u]]
      BY <1>0, <1>1, <3>1, RedirectKeeps DEF Redirects
    <3>3. QED
      BY <3>1, <3>2 DEF TensorsFit
  <2>3. QED
    BY <2>1, <2>2
<1>2. ASSUME NEW b \in Buffer, NEW n \in Bytes, TensorNew(t, b, n)
      PROVE  /\ \E c, rec : Redirects(t, c, rec)
             /\ TensorsFit'
             /\ size' \in [Tensor -> Nat] /\ promised' \subseteq Tensor
  <2>1. PICK p \in Malloc(n) : Redirect(t, b, Managed(p, n))
    BY <1>2 DEF TensorNew
  <2>2. Redirects(t, b, Managed(p, n))
    BY <1>2, <2>1, Records DEF Redirects, Legal, TensorNew
  <2>3. buffer'[b] = Managed(p, n)
    BY <1>0, <1>2, <2>2, Records, RedirectEffect DEF Redirects
  <2>4. size' = [size EXCEPT ![t] = n] /\ promised' = promised
    BY <1>2 DEF TensorNew
  <2>5. TensorsFit'
    <3>1. n \in Nat /\ n <= buffer'[b].byte_size
      BY <2>3, Records
    <3>2. QED
      BY <1>1, <2>2, <2>4, <3>1
  <2>6. QED
    BY <2>2, <2>4, <2>5 DEF TypeOK
<1>3. ASSUME NEW b \in Buffer, NEW n \in Bytes, NEW f \in Foreign, TensorView(t, b, n, f)
      PROVE  /\ \E c, rec : Redirects(t, c, rec)
             /\ TensorsFit'
             /\ size' \in [Tensor -> Nat] /\ promised' \subseteq Tensor
  <2>2. Redirects(t, b, External(f, n))
    BY <1>3, Records DEF Redirects, Legal, TensorView
  <2>3. buffer'[b] = External(f, n)
    BY <1>0, <1>3, <2>2, Records, RedirectEffect DEF Redirects
  <2>4. size' = [size EXCEPT ![t] = n] /\ promised' = promised
    BY <1>3 DEF TensorView
  <2>5. TensorsFit'
    <3>1. n \in Nat /\ n <= buffer'[b].byte_size
      BY <2>3, Records
    <3>2. QED
      BY <1>1, <2>2, <2>4, <3>1
  <2>6. QED
    BY <2>2, <2>4, <2>5 DEF TypeOK
<1>4. ASSUME NEW n \in Bytes, TensorUnbacked(t, n)
      PROVE  /\ UNCHANGED <<heap, buffer, ref>>
             /\ TensorsFit'
             /\ size' \in [Tensor -> Nat] /\ promised' \subseteq Tensor
  BY <1>4 DEF TensorUnbacked, NotBuilt, TensorsFit, TypeOK
<1>5. CASE TensorKeep(t)
  BY <1>5 DEF TensorKeep, TensorsFit, TypeOK
<1>6. ASSUME NEW b \in Buffer, NEW need_realloc \in BOOLEAN,
             TensorAllocate(t, b, need_realloc)
      PROVE  /\ \E c, rec : Redirects(t, c, rec)
             /\ TensorsFit'
             /\ size' \in [Tensor -> Nat] /\ promised' \subseteq Tensor
  <2>0. size[t] \in Nat
    BY DEF TypeOK
  <2>1. PICK p \in Malloc(size[t]) :
          /\ Redirect(t, b, Managed(p, size[t]))
          /\ promised' \in {promised \ {t}, promised \cup {t}}
    BY <1>6 DEF TensorAllocate
  <2>2. Redirects(t, b, Managed(p, size[t]))
    BY <1>6, <2>0, <2>1, Records DEF Redirects, Legal, TensorAllocate
  <2>3. buffer'[b] = Managed(p, size[t])
    BY <1>0, <2>0, <2>2, Records, RedirectEffect DEF Redirects
  <2>4. size' = [size EXCEPT ![t] = size[t]]
    BY <1>6 DEF TensorAllocate, TypeOK
  <2>5. TensorsFit'
    <3>1. size[t] <= buffer'[b].byte_size
      BY <2>0, <2>3, Records
    <3>2. QED
      BY <1>1, <2>0, <2>2, <2>4, <3>1
  <2>6. QED
    BY <2>1, <2>2, <2>4, <2>5 DEF TypeOK
<1>7. ASSUME NEW u \in Tensor, TensorCopy(t, u)
      PROVE  /\ \E c, rec : Redirects(t, c, rec)
             /\ TensorsFit'
             /\ size' \in [Tensor -> Nat] /\ promised' \subseteq Tensor
  <2>1. u # t /\ u \in Owner /\ size[u] \in Nat /\ ref[u] \in Buffer \cup {Null}
    BY <1>7 DEF TensorCopy, Owner, TypeOK
  <2>2. Redirects(t, ref[u], Null)
    BY <1>7, <2>1 DEF Redirects, Legal, TensorCopy
  <2>3. ref[u] # Null => buffer'[ref[u]] = buffer[ref[u]]
    <3>1. ref'[u] = ref[u]
      BY <1>0, <2>1, <2>2, RedirectEffect DEF Redirects
    <3>2. QED
      BY <1>0, <2>1, <2>2, <3>1, RedirectKeeps DEF Redirects
  <2>4. size' = [size EXCEPT ![t] = size[u]]
    BY <1>7 DEF TensorCopy
  <2>5. TensorsFit'
    BY <1>1, <2>1, <2>2, <2>3, <2>4 DEF TensorsFit
  <2>6. promised' \subseteq Tensor
    BY <1>7 DEF TensorCopy, TypeOK
  <2>7. QED
    BY <2>1, <2>2, <2>4, <2>5, <2>6 DEF TypeOK
<1>8. CASE TensorDrop(t)
  <2>1. Redirects(t, Null, Null)
    BY <1>8 DEF Redirects, Legal, TensorDrop
  <2>2. /\ size' = [size EXCEPT ![t] = 0]
        /\ promised' = promised \ {t}
        /\ UNCHANGED replaced
    BY <1>8 DEF TensorDrop
  <2>3. TensorsFit'
    BY <1>1, <2>1, <2>2
  <2>4. QED
    BY <2>1, <2>2, <2>3 DEF TypeOK
<1>9. UNCHANGED replaced
  BY DEF TensorStep, TensorNew, TensorView, TensorUnbacked, TensorKeep,
         TensorAllocate, TensorCopy, TensorDrop
<1>10. QED
  BY <1>2, <1>3, <1>4, <1>5, <1>6, <1>7, <1>8, <1>9 DEF TensorStep, TensorKeep

(* So does a step of a handle, or it is Buffer::allocate.                  *)
LEMMA HandleStepRedirects ==
  ASSUME TypeOK, CoreInv, NEW h \in Handle, HandleStep(h)
  PROVE  /\ \/ (\E b, rec : Redirects(h, b, rec)) /\ UNCHANGED replaced
            \/ BufferAllocate(h)
         /\ UNCHANGED <<size, promised>>
<1> USE MemoryAssumption DEF MemoryAssumption
<1>1. ASSUME NEW b \in Buffer, NEW n \in Bytes, BufferNew(h, b, n)
      PROVE  (\E c, rec : Redirects(h, c, rec)) /\ UNCHANGED <<size, promised, replaced>>
  <2>1. PICK p \in Malloc(n) : Redirect(h, b, Managed(p, n))
    BY <1>1 DEF BufferNew
  <2>2. Redirects(h, b, Managed(p, n))
    BY <1>1, <2>1, Records DEF Redirects, Legal, BufferNew
  <2>3. QED
    BY <1>1, <2>2 DEF BufferNew
<1>2. ASSUME NEW b \in Buffer, NEW n \in Bytes, NEW f \in Foreign, BufferView(h, b, n, f)
      PROVE  (\E c, rec : Redirects(h, c, rec)) /\ UNCHANGED <<size, promised, replaced>>
  <2>1. Redirects(h, b, External(f, n))
    BY <1>2, Records DEF Redirects, Legal, BufferView
  <2>2. QED
    BY <1>2, <2>1 DEF BufferView
<1>3. ASSUME NEW k \in Handle, HandleCopy(h, k)
      PROVE  (\E c, rec : Redirects(h, c, rec)) /\ UNCHANGED <<size, promised, replaced>>
  <2>1. k # h /\ k \in Owner /\ ref[k] \in Buffer \cup {Null}
    BY <1>3 DEF HandleCopy, Owner, TypeOK
  <2>2. Redirects(h, ref[k], Null)
    BY <1>3, <2>1 DEF Redirects, Legal, HandleCopy
  <2>3. QED
    BY <1>3, <2>2 DEF HandleCopy
<1>4. CASE HandleDrop(h)
  <2>1. Redirects(h, Null, Null)
    BY <1>4 DEF Redirects, Legal, HandleDrop
  <2>2. QED
    BY <1>4, <2>1 DEF HandleDrop
<1>5. CASE BufferAllocate(h)
  BY <1>5 DEF BufferAllocate
<1>6. QED
  BY <1>1, <1>2, <1>3, <1>4, <1>5 DEF HandleStep

(* Buffer::allocate keeps the core invariant: the Buffer manages the new    *)
(* block, and still has its size; blocks that are managed, other Buffers    *)
(* and all blocks whose pointers are not overwritten stay as they are.     *)
LEMMA AllocateCore ==
  ASSUME CoreInv, NEW h \in Owner, BufferAllocate(h)
  PROVE  /\ CoreInv'
         /\ \A c \in Buffer :
              /\ buffer'[c] # Null <=> buffer[c] # Null
              /\ buffer[c] # Null => buffer'[c].byte_size = buffer[c].byte_size
              /\ c # ref[h] => buffer'[c] = buffer[c]
         /\ \A c \in Buffer, a \in Addr : Manages(c, a) => heap'[a] = heap[a]
         /\ NoLeak => NoLeak'
<1> USE MemoryAssumption DEF MemoryAssumption
<1>1. PICK b \in Buffer : /\ b = ref[h]
                          /\ buffer[b] \in BufferRec
                          /\ buffer[b].kind = "managed"
                          /\ buffer[b].byte_size \in Nat \ {0}
  BY DEF BufferAllocate, CoreInv, Shape, Counted, BufferRec
<1>2. PICK p \in Malloc(buffer[b].byte_size) :
        /\ buffer' = [buffer EXCEPT ![b].ptr = p]
        /\ heap' = [a \in Addr |-> IF a = p THEN buffer[b].byte_size ELSE heap[a]]
        /\ ref' = ref
  <2>1. PICK p \in Malloc(buffer[ref[h]].byte_size) :
          /\ buffer' = [buffer EXCEPT ![ref[h]].ptr = p]
          /\ heap' = [a \in Addr |->
                       IF a = p THEN buffer[ref[h]].byte_size ELSE heap[a]]
    BY Zenon DEF BufferAllocate
  <2>2. ref' = ref
    BY DEF BufferAllocate
  <2>3. QED
    BY <1>1, <2>1, <2>2
<1>3. p \in Addr \cup {Null} /\ (p \in Addr => heap[p] = 0)
  BY <1>2 DEF Malloc
<1>4. \A c \in Buffer :
        buffer'[c] = IF c = b THEN [buffer[b] EXCEPT !.ptr = p] ELSE buffer[c]
  BY <1>1, <1>2 DEF CoreInv, Shape
<1>5. /\ buffer'[b] \in BufferRec
      /\ buffer'[b].kind = "managed"
      /\ buffer'[b].ptr = p
      /\ buffer'[b].byte_size = buffer[b].byte_size
      /\ buffer'[b] # Null
  <2>1. p \in Addr \cup Foreign
    BY <1>3
  <2>2. QED
    BY <1>1, <1>4, <2>1 DEF BufferRec
<1>6. \A c \in Buffer, a \in Addr :
        Manages(c, a)' <=> IF c = b THEN a = p ELSE Manages(c, a)
  BY <1>4, <1>5 DEF Manages
<1>7. Shape'
  <2>1. buffer' \in [Buffer -> BufferRec \cup {Null}]
    BY <1>2, <1>4, <1>5 DEF CoreInv, Shape
  <2>2. heap' \in [Addr -> Nat]
    BY <1>1, <1>2 DEF CoreInv, Shape
  <2>3. QED
    BY <1>2, <1>3, <1>4, <1>5, <2>1, <2>2 DEF CoreInv, Shape
<1>8. Counted'
  BY <1>1, <1>2, <1>4, <1>5 DEF CoreInv, Counted
<1>9. Backed'
  <2> SUFFICES ASSUME NEW c \in Buffer, NEW a \in Addr, Manages(c, a)'
               PROVE  heap'[a] # 0 /\ heap'[a] = buffer'[c].byte_size
    BY DEF Backed
  <2>1. CASE c = b
    BY <1>1, <1>2, <1>5, <1>6, <2>1
  <2>2. CASE c # b
    <3>1. Manages(c, a) /\ buffer'[c] = buffer[c]
      BY <1>4, <1>6, <2>2
    <3>2. a # p
      BY <1>3, <3>1 DEF CoreInv, Backed
    <3>3. QED
      BY <1>2, <3>1, <3>2 DEF CoreInv, Backed
  <2>3. QED
    BY <2>1, <2>2
<1>10. SoleManager'
  <2>1. \A c \in Buffer, a \in Addr : Manages(c, a) => a # p
    BY <1>3 DEF CoreInv, Backed
  <2>2. QED
    BY <1>6, <2>1 DEF CoreInv, SoleManager
<1>11. ASSUME NEW c \in Buffer
       PROVE  /\ buffer'[c] # Null <=> buffer[c] # Null
              /\ buffer[c] # Null => buffer'[c].byte_size = buffer[c].byte_size
              /\ c # ref[h] => buffer'[c] = buffer[c]
  <2>1. CASE c = b
    BY <1>1, <1>5, <2>1
  <2>2. CASE c # b
    BY <1>4, <2>2
  <2>3. QED
    BY <2>1, <2>2
<1>12. ASSUME NEW c \in Buffer, NEW a \in Addr, Manages(c, a)
       PROVE  heap'[a] = heap[a]
  BY <1>2, <1>3, <1>12 DEF CoreInv, Backed
<1>13. ASSUME NoLeak
       PROVE  NoLeak'
  <2> SUFFICES ASSUME NEW a \in Addr, heap'[a] # 0, a \notin replaced'
               PROVE  \E c \in Buffer : Manages(c, a)' /\ \E q \in Owner : ref'[q] = c
    BY DEF NoLeak
  <2>1. CASE a = p
    BY <1>1, <1>2, <1>6, <2>1
  <2>2. CASE a # p
    <3>1. heap[a] # 0
      BY <1>2, <2>2
    <3>2. a \notin replaced /\ a # buffer[b].ptr
      BY <1>1 DEF BufferAllocate
    <3>3. PICK c \in Buffer : Manages(c, a) /\ \E q \in Owner : ref[q] = c
      BY <1>13, <3>1, <3>2 DEF NoLeak
    <3>4. c # b
      BY <3>2, <3>3 DEF Manages
    <3>5. QED
      BY <1>2, <1>6, <3>3, <3>4
  <2>3. QED
    BY <2>1, <2>2
<1>14. QED
  BY <1>7, <1>8, <1>9, <1>10, <1>11, <1>12, <1>13 DEF CoreInv

(* The inductive invariant of every use of the memory.                     *)
MemoryInv == TypeOK /\ CoreInv /\ TensorsFit

(* Every step keeps it.                                                    *)
LEMMA MemoryStep == MemoryInv /\ [Next]_vars => MemoryInv'
<1> SUFFICES ASSUME MemoryInv, [Next]_vars
             PROVE  MemoryInv'
  OBVIOUS
<1> USE DEF MemoryInv
<1>0. Tensor \subseteq Owner /\ Handle \subseteq Owner
  BY DEF Owner
<1>1. ASSUME NEW t \in Tensor, TensorStep(t)
      PROVE  MemoryInv'
  <2>1. CoreInv'
    <3>1. CASE \E b, rec : Redirects(t, b, rec)
      BY <1>0, <3>1, RedirectCore DEF Redirects
    <3>2. CASE UNCHANGED <<heap, buffer, ref>>
      BY <3>2 DEF CoreInv, Shape, Counted, Backed, SoleManager, Manages
    <3>3. QED
      BY <1>1, <3>1, <3>2, TensorStepRedirects
  <2>2. TensorsFit' /\ size' \in [Tensor -> Nat] /\ promised' \subseteq Tensor
        /\ UNCHANGED replaced
    BY <1>1, TensorStepRedirects
  <2>3. QED
    BY <2>1, <2>2 DEF TypeOK, CoreInv, Shape
<1>2. ASSUME NEW h \in Handle, HandleStep(h)
      PROVE  MemoryInv'
  <2>1. UNCHANGED <<size, promised>> /\ replaced' \subseteq Addr
    BY <1>2, HandleStepRedirects DEF BufferAllocate, TypeOK
  <2>2. ASSUME NEW b, NEW rec, Redirects(h, b, rec)
        PROVE  CoreInv' /\ TensorsFit'
    <3>1. CoreInv'
      BY <1>0, <2>2, RedirectCore DEF Redirects
    <3>2. ASSUME NEW t \in Tensor, ref'[t] # Null
          PROVE  size'[t] <= buffer'[ref'[t]].byte_size
      <4>1. CASE t # h
        <5>1. ref'[t] = ref[t]
          BY <1>0, <2>2, <4>1, RedirectEffect DEF Redirects
        <5>2. buffer'[ref[t]] = buffer[ref[t]]
          BY <1>0, <2>2, <3>2, <5>1, RedirectKeeps DEF Redirects
        <5>3. QED
          BY <2>1, <3>2, <5>1, <5>2 DEF TensorsFit
      <4>2. CASE t = h
        BY <4>2, MemoryAssumption DEF MemoryAssumption
      <4>3. QED
        BY <4>1, <4>2
    <3>3. QED
      BY <3>1, <3>2 DEF TensorsFit
  <2>3. ASSUME BufferAllocate(h)
        PROVE  CoreInv' /\ TensorsFit'
    <3>1. CoreInv' /\ ref' = ref
      BY <1>0, <2>3, AllocateCore DEF BufferAllocate
    <3>2. \A t \in Tensor : ref[t] # Null => ref[t] \in Buffer /\ buffer[ref[t]] # Null
      BY <1>0 DEF TypeOK, CoreInv, Counted
    <3>3. TensorsFit'
      BY <1>0, <2>1, <2>3, <3>1, <3>2, AllocateCore DEF TensorsFit
    <3>4. QED
      BY <3>1, <3>3
  <2>4. CoreInv' /\ TensorsFit'
    BY <1>2, <2>2, <2>3, HandleStepRedirects
  <2>5. QED
    BY <2>1, <2>4 DEF TypeOK, CoreInv, Shape
<1>3. CASE UNCHANGED vars
  BY <1>3 DEF vars, TypeOK, TensorsFit, CoreInv, Shape, Counted, Backed,
              SoleManager, Manages
<1>4. QED
  BY <1>1, <1>2, <1>3 DEF Next

(* Initially there is nothing.                                             *)
LEMMA MemoryInit == Init => MemoryInv
BY MemoryAssumption DEF MemoryAssumption, Init, MemoryInv, TypeOK, CoreInv, Shape,
   Counted, Backed, SoleManager, Manages, TensorsFit, Owner
-----------------------------------------------------------------------------
(* However Buffers are shared, replaced and dropped, and whenever malloc    *)
(* fails: owners read live memory of their own, tensors fit their Buffers, *)
(* and only blocks of the heap are freed, each once.                       *)
THEOREM MemorySafe ==
  Spec => [](TypeOK /\ OwnersReadLiveMemory /\ TensorsFit /\ OnlyHeapIsFreed)
<1>1. MemoryInv => OwnersReadLiveMemory
  <2>1. ASSUME MemoryInv, NEW o \in Owner, ref[o] # Null
        PROVE  buffer[ref[o]] # Null
    BY <2>1 DEF MemoryInv, TypeOK, CoreInv, Counted
  <2>2. QED
    BY <2>1 DEF MemoryInv, CoreInv, Backed, SoleManager, OwnersReadLiveMemory
<1>2. MemoryInv => TypeOK /\ TensorsFit /\ OnlyHeapIsFreed
  BY CoreFreesHeapOnly DEF MemoryInv
<1>3. QED
  BY <1>1, <1>2, MemoryInit, MemoryStep, PTL DEF Spec

(* Every block is managed by a Buffer with an owner, those excepted whose   *)
(* pointers Buffer::allocate overwrites.                                   *)
THEOREM NothingElseIsLost == Spec => []NoLeak
<1>1. Init => NoLeak
  BY DEF Init, NoLeak
<1>2. ASSUME MemoryInv, NoLeak, [Next]_vars
      PROVE  NoLeak'
  <2>0. Tensor \subseteq Owner /\ Handle \subseteq Owner
    BY DEF Owner
  <2>1. ASSUME NEW o \in Owner, NEW b, NEW rec, Redirects(o, b, rec), UNCHANGED replaced
        PROVE  NoLeak'
    BY <1>2, <2>1, RedirectLosesNothing DEF Redirects, MemoryInv
  <2>2. CASE UNCHANGED <<heap, buffer, ref, replaced>>
    BY <1>2, <2>2 DEF NoLeak, Manages
  <2>3. ASSUME NEW t \in Tensor, TensorStep(t)
        PROVE  NoLeak'
    BY <1>2, <2>0, <2>1, <2>2, <2>3, TensorStepRedirects DEF MemoryInv
  <2>4. ASSUME NEW h \in Handle, HandleStep(h)
        PROVE  NoLeak'
    BY <1>2, <2>0, <2>1, <2>4, HandleStepRedirects, AllocateCore DEF MemoryInv
  <2>5. QED
    BY <1>2, <2>2, <2>3, <2>4 DEF Next, vars
<1>3. QED
  BY <1>1, <1>2, MemoryInit, MemoryStep, PTL DEF Spec

(* No step frees memory under an owner that keeps its Buffer, and none but  *)
(* Buffer::allocate on that Buffer moves it.                               *)
THEOREM SharedMemoryStays == Spec => MemoryStaysPut
<1> DEFINE StaysFor(o) ==
             /\ (\A h \in Handle : ref[h] # ref[o]) => buffer'[ref[o]] = buffer[ref[o]]
             /\ \A a \in Addr : Manages(ref[o], a) => heap'[a] = heap[a]
           Stays == \A o \in Owner : ref[o] # Null /\ ref'[o] = ref[o] => StaysFor(o)
<1>1. ASSUME MemoryInv, [Next]_vars
      PROVE  Stays
  <2>0. Tensor \subseteq Owner /\ Handle \subseteq Owner
    BY DEF Owner
  <2>1. ASSUME NEW q \in Owner, NEW b, NEW rec, Redirects(q, b, rec)
        PROVE  Stays
    BY <1>1, <2>1, RedirectKeeps DEF Redirects, MemoryInv
  <2>2. CASE UNCHANGED <<heap, buffer, ref>>
    BY <2>2
  <2>3. ASSUME NEW t \in Tensor, TensorStep(t)
        PROVE  Stays
    BY <1>1, <2>0, <2>1, <2>2, <2>3, TensorStepRedirects DEF MemoryInv
  <2>4. ASSUME NEW h \in Handle, BufferAllocate(h)
        PROVE  Stays
    <3>1. \A o \in Owner : ref[o] # Null => ref[o] \in Buffer
      BY <1>1 DEF MemoryInv, TypeOK
    <3>2. QED
      BY <1>1, <2>0, <2>4, <3>1, AllocateCore DEF MemoryInv
  <2>5. ASSUME NEW h \in Handle, HandleStep(h)
        PROVE  Stays
    BY <1>1, <2>0, <2>1, <2>4, <2>5, HandleStepRedirects DEF MemoryInv
  <2>6. QED
    BY <1>1, <2>2, <2>3, <2>5 DEF Next, vars
<1>2. MemoryInv /\ [Next]_vars => [Stays]_vars
  BY <1>1
<1>3. QED
  BY <1>2, MemoryInit, MemoryStep, PTL DEF Spec, MemoryStaysPut
=============================================================================
