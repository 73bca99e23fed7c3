------------------------- MODULE CudaAllocatorProofs -------------------------
(***************************************************************************)
(* Proofs about CudaAllocator, for any sets of addresses, Buffers and      *)
(* sizes.                                                                  *)
(***************************************************************************)
EXTENDS CudaAllocator, TLAPS

(* The pools keep their type when an entry is occupied ...                 *)
LEMMA OccupyType ==
  ASSUME TypeOK, NEW e \in CudaMemoryBuffer, Occupy(e)
  PROVE  /\ pool' \in [Device -> SUBSET CudaMemoryBuffer]
         /\ busy' \in [Device -> SUBSET CudaMemoryBuffer]
<1>1. CASE PoolAliased
  BY <1>1 DEF Occupy, TypeOK
<1>2. CASE ~PoolAliased
  BY <1>2 DEF Occupy, TypeOK
<1>3. QED
  BY <1>1, <1>2

(* ... and so do the owners when one of them is assigned another pointer;   *)
(* what it held is lost.                                                   *)
LEMMA OverwriteEffect ==
  ASSUME TypeOK, NEW b \in Buffer, NEW v \in Block \cup {Null}, Overwrite(b, v)
  PROVE  /\ held' \in [Buffer -> Block \cup {Null}]
         /\ lost' \subseteq Ptr
         /\ held'[b] = v
         /\ \A c \in Buffer \ {b} : held'[c] = held[c]
         /\ \A c \in Buffer, q \in Ptr :
              Holds(c, q)' <=> IF c = b THEN v # Null /\ q = v.ptr ELSE Holds(c, q)
         /\ \A q \in Ptr : q \in lost' <=> q \in lost \/ Holds(b, q)
<1>1. /\ held' = [held EXCEPT ![b] = v]
      /\ lost' = IF held[b] = Null THEN lost ELSE lost \cup {held[b].ptr}
  BY DEF Overwrite
<1>2. /\ held \in [Buffer -> Block \cup {Null}]
      /\ lost \subseteq Ptr
      /\ held[b] # Null => held[b].ptr \in Ptr
  BY DEF TypeOK, Block
<1>3. /\ held' \in [Buffer -> Block \cup {Null}]
      /\ held'[b] = v
      /\ \A c \in Buffer \ {b} : held'[c] = held[c]
  BY <1>1, <1>2
<1>4. \A c \in Buffer, q \in Ptr :
        Holds(c, q)' <=> IF c = b THEN v # Null /\ q = v.ptr ELSE Holds(c, q)
  BY <1>3 DEF Holds
<1>5. lost' \subseteq Ptr /\ \A q \in Ptr : q \in lost' <=> q \in lost \/ Holds(b, q)
  BY <1>1, <1>2 DEF Holds
<1>6. QED
  BY <1>3, <1>4, <1>5

(* The block a Buffer takes is one.                                        *)
LEMMA TakeType ==
  ASSUME TypeOK, NEW n \in Size, NEW p \in Ptr
  PROVE  /\ [ptr |-> p, size |-> n, dev |-> current] \in Block
         /\ [ptr |-> p, size |-> n, dev |-> current] # Null
BY ConstantsAssumption DEF ConstantsAssumption, TypeOK, Block

(* Taking one changes the owners as follows.                               *)
LEMMA TakeEffect ==
  ASSUME TypeOK, NEW b \in Buffer, NEW n \in Size, NEW p \in Ptr, Take(b, n, p)
  PROVE  /\ held' \in [Buffer -> Block \cup {Null}]
         /\ lost' \subseteq Ptr
         /\ held'[b] = [ptr |-> p, size |-> n, dev |-> current]
         /\ \A c \in Buffer \ {b} : held'[c] = held[c]
         /\ \A c \in Buffer, q \in Ptr :
              Holds(c, q)' <=> IF c = b THEN q = p ELSE Holds(c, q)
         /\ \A q \in Ptr : q \in lost' <=> q \in lost \/ Holds(b, q)
<1> DEFINE v == [ptr |-> p, size |-> n, dev |-> current]
<1>1. v \in Block /\ v # Null /\ v.ptr = p
  BY TakeType
<1>2. Overwrite(b, v)
  BY DEF Take
<1> HIDE DEF v
<1>3. /\ held' \in [Buffer -> Block \cup {Null}]
      /\ lost' \subseteq Ptr
      /\ held'[b] = v
      /\ \A c \in Buffer \ {b} : held'[c] = held[c]
      /\ \A c \in Buffer, q \in Ptr :
           Holds(c, q)' <=> IF c = b THEN v # Null /\ q = v.ptr ELSE Holds(c, q)
      /\ \A q \in Ptr : q \in lost' <=> q \in lost \/ Holds(b, q)
  BY <1>1, <1>2, OverwriteEffect
<1>4. QED
  BY <1>1, <1>3 DEF v

(* The initial state is well typed.                                        *)
LEMMA TypeInit == Init => TypeOK
BY ConstantsAssumption DEF ConstantsAssumption, Init, TypeOK

(* The type invariant, under both readings of allocate.                    *)
THEOREM TypeCorrect == Spec => []TypeOK
<1> USE ConstantsAssumption DEF ConstantsAssumption
<1>1. Init => TypeOK
  BY TypeInit
<1>2. ASSUME TypeOK, [Next]_vars
      PROVE  TypeOK'
  <2> USE <1>2
  <2>1. ASSUME NEW b \in Buffer, NEW n \in Size, Reuse(b, n)
        PROVE  TypeOK'
    <3>1. PICK e \in CudaMemoryBuffer : Occupy(e) /\ Take(b, n, e.data)
      BY <2>1 DEF Reuse, BestFit, Fitting, TypeOK
    <3>2. e.data \in Ptr
      BY DEF CudaMemoryBuffer
    <3>3. QED
      BY <2>1, <3>1, <3>2, OccupyType, TakeEffect DEF Reuse, Begin, TypeOK
  <2>2. ASSUME NEW b \in Buffer, NEW n \in Size, Malloc(b, n)
        PROVE  TypeOK'
    <3>1. PICK p \in Ptr \ Live :
            /\ location' = [location EXCEPT ![p] = current]
            /\ extent' = [extent EXCEPT ![p] = n]
            /\ Occupy([data |-> p, byte_size |-> n])
            /\ Take(b, n, p)
      BY <2>2 DEF Malloc
    <3>2. [data |-> p, byte_size |-> n] \in CudaMemoryBuffer
      BY DEF CudaMemoryBuffer
    <3>3. /\ pool' \in [Device -> SUBSET CudaMemoryBuffer]
          /\ busy' \in [Device -> SUBSET CudaMemoryBuffer]
      BY <3>1, <3>2, OccupyType
    <3>4. held' \in [Buffer -> Block \cup {Null}] /\ lost' \subseteq Ptr
      BY <3>1, TakeEffect
    <3>5. QED
      BY <2>2, <3>1, <3>3, <3>4 DEF Malloc, Begin, TypeOK
  <2>3. ASSUME NEW b \in Buffer, NEW n \in Size, MallocFails(b, n)
        PROVE  TypeOK'
    <3>1. held' \in [Buffer -> Block \cup {Null}] /\ lost' \subseteq Ptr
      BY <2>3, OverwriteEffect DEF MallocFails
    <3>2. QED
      BY <2>3, <3>1 DEF MallocFails, Begin, TypeOK
  <2>4. ASSUME NEW b \in Buffer, NEW n \in Size, AllocateSmall(b, n)
        PROVE  TypeOK'
    BY <2>4, TakeEffect DEF AllocateSmall, TypeOK
  <2>5. ASSUME NEW b \in Buffer, Release(b)
        PROVE  TypeOK'
    BY <2>5 DEF Release, MarkIdle, CudaFree, HomeDevices, TypeOK, Block
  <2>6. ASSUME NEW d \in Device, SetDevice(d)
        PROVE  TypeOK'
    BY <2>6 DEF SetDevice, TypeOK
  <2>7. CASE UNCHANGED vars
    BY <2>7 DEF vars, TypeOK
  <2>8. QED
    BY <2>1, <2>2, <2>3, <2>4, <2>5, <2>6, <2>7 DEF Next
<1>3. QED
  BY <1>1, <1>2, PTL DEF Spec
-----------------------------------------------------------------------------
(* The documented use of the pool: allocate fills it, one device, and only *)
(* requests big enough to take the big path.                               *)
OneDevice ==
  /\ PoolAliased
  /\ \A c, d \in Device : c = d
  /\ \A n \in Size : n > BigLimit

(* PoolIsExact alone is not inductive: a release keeps it only if the      *)
(* loop finds the block (HeldIsKnown), and reuse keeps Exclusive only if   *)
(* idle entries have no owner (PoolIsExact).  A lost block stays allocated, *)
(* or its address could be handed out by cudaMalloc.                       *)
LostStays == \A p \in lost : location[p] # Null /\ \A b \in Buffer : ~Holds(b, p)

PoolInv ==
  /\ TypeOK
  /\ LostStays
  /\ Exclusive
  /\ HeldIsBacked
  /\ PoolIsExact
  /\ HeldIsKnown
  /\ NoLeak

(* A held block is allocated and nobody else's.                            *)
LEMMA HeldAlone ==
  ASSUME TypeOK, HeldIsBacked, Exclusive, NEW b \in Buffer, NEW p \in Ptr, Holds(b, p)
  PROVE  location[p] # Null /\ \A c \in Buffer : Holds(c, p) => c = b
BY ConstantsAssumption DEF ConstantsAssumption, HeldIsBacked, Exclusive, Holds, TypeOK, Block

(* Handing out an idle entry keeps the invariant: the entry is allocated,   *)
(* and no Buffer holds its block.                                          *)
LEMMA PoolInvReuse ==
  ASSUME OneDevice, PoolInv, NEW b \in Buffer, NEW n \in Size, Reuse(b, n), TypeOK'
  PROVE  PoolInv'
<1> USE ConstantsAssumption DEF ConstantsAssumption
<1>1. PICK e \in BestFit(n) : Occupy(e) /\ Take(b, n, e.data)
  BY DEF Reuse
<1>2. /\ e \in pool[current] \ busy[current]
      /\ e \in CudaMemoryBuffer
      /\ e.byte_size >= n
      /\ e.byte_size - n < Slack
  BY DEF BestFit, Fitting, PoolInv, TypeOK
<1>3. /\ pool' = pool
      /\ busy' = [busy EXCEPT ![current] = @ \cup {e}]
  <2>1. /\ pool' = [pool EXCEPT ![current] = @ \cup {e}]
        /\ busy' = [busy EXCEPT ![current] = @ \cup {e}]
    BY <1>1 DEF Occupy, OneDevice
  <2>2. pool[current] \cup {e} = pool[current]
    BY <1>2
  <2>3. QED
    BY <2>1, <2>2 DEF PoolInv, TypeOK
<1>4. /\ keys' = keys \cup {current}
      /\ UNCHANGED <<current, location, extent>>
  BY DEF Reuse, Begin
<1>5. /\ held'[b] = [ptr |-> e.data, size |-> n, dev |-> current]
      /\ \A c \in Buffer \ {b} : held'[c] = held[c]
      /\ \A c \in Buffer, p \in Ptr :
           Holds(c, p)' <=> IF c = b THEN p = e.data ELSE Holds(c, p)
      /\ \A p \in Ptr : p \in lost' <=> p \in lost \/ Holds(b, p)
      /\ lost' \subseteq Ptr
  BY <1>1, <1>2, TakeEffect DEF PoolInv, CudaMemoryBuffer
<1>6. e.data \in Ptr /\ e.data \notin lost /\ \A c \in Buffer : ~Holds(c, e.data)
  BY <1>2 DEF PoolInv, PoolIsExact, TypeOK, CudaMemoryBuffer
<1>7. Exclusive'
  BY <1>5, <1>6 DEF Exclusive, PoolInv
<1>8. HeldIsBacked'
  <2> SUFFICES ASSUME NEW c \in Buffer, held'[c] # Null
               PROVE  /\ location[held'[c].ptr] = held'[c].dev
                      /\ held'[c].size <= extent[held'[c].ptr]
                      /\ extent[held'[c].ptr] - held'[c].size < Slack
    BY <1>4 DEF HeldIsBacked
  <2>1. CASE c = b
    BY <1>2, <1>5, <2>1 DEF PoolInv, PoolIsExact, TypeOK
  <2>2. CASE c # b
    BY <1>5, <2>2 DEF PoolInv, HeldIsBacked
  <2>3. QED
    BY <2>1, <2>2
<1>9. PoolIsExact'
  <2> SUFFICES ASSUME NEW d \in Device, NEW f \in pool[d]
               PROVE  /\ location[f.data] = d
                      /\ extent[f.data] = f.byte_size
                      /\ (f \in busy'[d]) <=>
                           (\E c \in Buffer : Holds(c, f.data)') \/ f.data \in lost'
                      /\ f.data \in lost' => \A c \in Buffer : ~Holds(c, f.data)'
                      /\ \A g \in pool[d] : g.data = f.data => g = f
    BY <1>3, <1>4 DEF PoolIsExact, Holds
  <2>1. /\ location[f.data] = d
        /\ extent[f.data] = f.byte_size
        /\ (f \in busy[d]) <=> (\E c \in Buffer : Holds(c, f.data)) \/ f.data \in lost
        /\ f.data \in lost => \A c \in Buffer : ~Holds(c, f.data)
        /\ \A g \in pool[d] : g.data = f.data => g = f
        /\ f.data \in Ptr
        /\ d = current
    BY DEF PoolInv, PoolIsExact, TypeOK, CudaMemoryBuffer, OneDevice
  <2>2. CASE f = e
    <3>1. f \in busy'[d]
      BY <1>3, <2>1, <2>2 DEF PoolInv, TypeOK
    <3>2. Holds(b, f.data)' /\ f.data \notin lost'
      BY <1>5, <1>6, <2>2
    <3>3. QED
      BY <2>1, <3>1, <3>2
  <2>3. CASE f # e
    <3>1. f.data # e.data
      BY <1>2, <2>1, <2>3
    <3>2. \A c \in Buffer : Holds(c, f.data)' <=> c # b /\ Holds(c, f.data)
      BY <1>5, <2>1, <3>1
    <3>3. (f \in busy'[d]) <=> (f \in busy[d])
      BY <1>3, <2>1, <2>3 DEF PoolInv, TypeOK
    <3>4. f.data \in lost' <=> f.data \in lost \/ Holds(b, f.data)
      BY <1>5, <2>1
    <3>5. \A c \in Buffer : Holds(b, f.data) /\ Holds(c, f.data) => c = b
      BY <2>1 DEF PoolInv, Exclusive
    <3>6. QED
      BY <2>1, <3>2, <3>3, <3>4, <3>5
  <2>4. QED
    BY <2>2, <2>3
<1>10. HeldIsKnown'
  <2>1. current \in keys' /\ Has(current, e.data)'
    BY <1>2, <1>3, <1>4 DEF Has
  <2>2. \A d \in Device, q \in Ptr : Has(d, q) => Has(d, q)'
    BY <1>3 DEF Has
  <2>3. QED
    BY <1>4, <1>5, <2>1, <2>2 DEF HeldIsKnown, PoolInv, TypeOK, Block
<1>11. NoLeak'
  <2> SUFFICES ASSUME NEW p \in Live, p \notin lost'
               PROVE  \/ \E c \in Buffer : Holds(c, p)'
                      \/ \E d \in Device : \E f \in pool'[d] \ busy'[d] : f.data = p
    BY <1>4 DEF NoLeak, Live, Holds
  <2>0. p \in Ptr /\ p \notin lost /\ ~Holds(b, p)
    BY <1>5 DEF Live
  <2>1. CASE p = e.data
    BY <1>5, <2>0, <2>1
  <2>2. CASE p # e.data
    <3>1. \A c \in Buffer : Holds(c, p) => Holds(c, p)'
      BY <1>5, <2>0
    <3>2. \A d \in Device : \A f \in pool[d] \ busy[d] :
            f.data = p => f \in pool'[d] \ busy'[d]
      BY <1>3, <2>2 DEF PoolInv, TypeOK
    <3>3. QED
      BY <1>3, <2>0, <3>1, <3>2 DEF PoolInv, NoLeak
  <2>3. QED
    BY <2>1, <2>2
<1>12. LostStays'
  <2> SUFFICES ASSUME NEW p \in lost'
               PROVE  location[p] # Null /\ \A c \in Buffer : ~Holds(c, p)'
    BY <1>4 DEF LostStays, Holds
  <2>1. p \in Ptr /\ (p \in lost \/ Holds(b, p)) /\ p # e.data
    BY <1>5, <1>6
  <2>2. location[p] # Null /\ \A c \in Buffer : Holds(c, p) => c = b
    BY <2>1, HeldAlone DEF PoolInv, LostStays
  <2>3. QED
    BY <1>5, <2>1, <2>2
<1>13. QED
  BY <1>7, <1>8, <1>9, <1>10, <1>11, <1>12 DEF PoolInv

(* A fresh block keeps it: no Buffer and no entry knows its address.       *)
LEMMA PoolInvMalloc ==
  ASSUME OneDevice, PoolInv, NEW b \in Buffer, NEW n \in Size, Malloc(b, n), TypeOK'
  PROVE  PoolInv'
<1> USE ConstantsAssumption DEF ConstantsAssumption
<1>1. PICK p \in Ptr \ Live :
        /\ location' = [location EXCEPT ![p] = current]
        /\ extent' = [extent EXCEPT ![p] = n]
        /\ Occupy([data |-> p, byte_size |-> n])
        /\ Take(b, n, p)
  BY DEF Malloc
<1> DEFINE new == [data |-> p, byte_size |-> n]
<1>2. /\ pool' = [pool EXCEPT ![current] = @ \cup {new}]
      /\ busy' = [busy EXCEPT ![current] = @ \cup {new}]
  BY <1>1 DEF Occupy, OneDevice
<1>3. keys' = keys \cup {current} /\ UNCHANGED current
  BY DEF Malloc, Begin
<1>4. /\ location[p] = Null
      /\ p \in Ptr
      /\ new \in CudaMemoryBuffer /\ new.data = p /\ new.byte_size = n
  BY <1>1 DEF Live, CudaMemoryBuffer
<1>5. p \notin lost /\ \A c \in Buffer : ~Holds(c, p)
  BY <1>4, HeldAlone DEF PoolInv, LostStays
<1>6. \A d \in Device : \A f \in pool[d] : f.data # p /\ f # new
  BY <1>4 DEF PoolIsExact, PoolInv, TypeOK
<1>7. /\ held'[b] = [ptr |-> p, size |-> n, dev |-> current]
      /\ \A c \in Buffer \ {b} : held'[c] = held[c]
      /\ \A c \in Buffer, q \in Ptr :
           Holds(c, q)' <=> IF c = b THEN q = p ELSE Holds(c, q)
      /\ \A q \in Ptr : q \in lost' <=> q \in lost \/ Holds(b, q)
      /\ lost' \subseteq Ptr
  BY <1>1, <1>4, TakeEffect DEF PoolInv
<1>8. Exclusive'
  BY <1>5, <1>7 DEF Exclusive, PoolInv
<1>9. HeldIsBacked'
  <2> SUFFICES ASSUME NEW c \in Buffer, held'[c] # Null
               PROVE  /\ location'[held'[c].ptr] = held'[c].dev
                      /\ held'[c].size <= extent'[held'[c].ptr]
                      /\ extent'[held'[c].ptr] - held'[c].size < Slack
    BY DEF HeldIsBacked
  <2>1. CASE c = b
    BY <1>1, <1>4, <1>7, <2>1 DEF PoolInv, TypeOK
  <2>2. CASE c # b
    <3>1. held'[c] = held[c] /\ held[c].ptr # p /\ held[c].ptr \in Ptr
      BY <1>5, <1>7, <2>2 DEF Holds, PoolInv, TypeOK, Block
    <3>2. QED
      BY <1>1, <3>1 DEF HeldIsBacked, PoolInv, TypeOK
  <2>3. QED
    BY <2>1, <2>2
<1>10. PoolIsExact'
  <2> SUFFICES ASSUME NEW d \in Device, NEW f \in pool'[d]
               PROVE  /\ location'[f.data] = d
                      /\ extent'[f.data] = f.byte_size
                      /\ (f \in busy'[d]) <=>
                           (\E c \in Buffer : Holds(c, f.data)') \/ f.data \in lost'
                      /\ f.data \in lost' => \A c \in Buffer : ~Holds(c, f.data)'
                      /\ \A g \in pool'[d] : g.data = f.data => g = f
    BY DEF PoolIsExact, Holds
  <2>1. d = current
    BY DEF OneDevice, PoolInv, TypeOK
  <2>2. pool'[d] = pool[d] \cup {new} /\ busy'[d] = busy[d] \cup {new}
    BY <1>2, <2>1 DEF PoolInv, TypeOK
  <2>3. CASE f = new
    <3>1. Holds(b, f.data)' /\ f.data \notin lost'
      BY <1>4, <1>5, <1>7, <2>3
    <3>2. QED
      BY <1>1, <1>4, <1>6, <2>1, <2>2, <2>3, <3>1 DEF PoolInv, TypeOK
  <2>4. CASE f # new
    <3>1. f \in pool[d] /\ f.data # p /\ f.data \in Ptr
      BY <1>6, <2>2, <2>4 DEF PoolInv, TypeOK, CudaMemoryBuffer
    <3>2. \A c \in Buffer : Holds(c, f.data)' <=> c # b /\ Holds(c, f.data)
      BY <1>7, <3>1
    <3>3. /\ location[f.data] = d
          /\ extent[f.data] = f.byte_size
          /\ (f \in busy[d]) <=> (\E c \in Buffer : Holds(c, f.data)) \/ f.data \in lost
          /\ f.data \in lost => \A c \in Buffer : ~Holds(c, f.data)
          /\ \A g \in pool[d] : g.data = f.data => g = f
      BY <3>1 DEF PoolInv, PoolIsExact
    <3>4. \A c \in Buffer : Holds(b, f.data) /\ Holds(c, f.data) => c = b
      BY <3>1 DEF PoolInv, Exclusive
    <3>5. /\ f \in busy'[d] <=> f \in busy[d]
          /\ f.data \in lost' <=> f.data \in lost \/ Holds(b, f.data)
      BY <1>7, <2>2, <2>4, <3>1
    <3>6. /\ location'[f.data] = d
          /\ extent'[f.data] = f.byte_size
          /\ \A g \in pool'[d] : g.data = f.data => g = f
      BY <1>1, <1>4, <2>2, <3>1, <3>3 DEF PoolInv, TypeOK
    <3>7. QED
      BY <3>2, <3>3, <3>4, <3>5, <3>6
  <2>5. QED
    BY <2>3, <2>4
<1>11. HeldIsKnown'
  <2>1. current \in keys' /\ Has(current, p)'
    BY <1>2, <1>3, <1>4 DEF Has, PoolInv, TypeOK
  <2>2. \A d \in Device, q \in Ptr : Has(d, q) => Has(d, q)'
    BY <1>2 DEF Has, PoolInv, TypeOK
  <2>3. QED
    BY <1>3, <1>7, <2>1, <2>2 DEF HeldIsKnown, PoolInv, TypeOK, Block
<1>12. NoLeak'
  <2> SUFFICES ASSUME NEW q \in Live', q \notin lost'
               PROVE  \/ \E c \in Buffer : Holds(c, q)'
                      \/ \E d \in Device : \E f \in pool'[d] \ busy'[d] : f.data = q
    BY DEF NoLeak
  <2>1. CASE q = p
    BY <1>4, <1>7, <2>1
  <2>2. CASE q # p
    <3>1. q \in Live /\ q \in Ptr /\ q \notin lost /\ ~Holds(b, q)
      BY <1>1, <1>7, <2>2 DEF Live, PoolInv, TypeOK
    <3>2. \A c \in Buffer : Holds(c, q) => Holds(c, q)'
      BY <1>7, <3>1
    <3>3. \A d \in Device : \A f \in pool[d] \ busy[d] :
            f.data = q => f \in pool'[d] \ busy'[d]
      BY <1>2, <1>6 DEF PoolInv, TypeOK
    <3>4. QED
      BY <3>1, <3>2, <3>3 DEF PoolInv, NoLeak
  <2>3. QED
    BY <2>1, <2>2
<1>13. LostStays'
  <2> SUFFICES ASSUME NEW q \in lost'
               PROVE  location'[q] # Null /\ \A c \in Buffer : ~Holds(c, q)'
    BY DEF LostStays, Holds
  <2>1. q \in Ptr /\ (q \in lost \/ Holds(b, q)) /\ q # p
    BY <1>5, <1>7
  <2>2. location[q] # Null /\ \A c \in Buffer : Holds(c, q) => c = b
    BY <2>1, HeldAlone DEF PoolInv, LostStays
  <2>3. QED
    BY <1>1, <1>7, <2>1, <2>2 DEF PoolInv, TypeOK
<1>14. QED
  BY <1>8, <1>9, <1>10, <1>11, <1>12, <1>13 DEF PoolInv

(* So does a cudaMalloc that fails, although a block may be lost by it.     *)
LEMMA PoolInvFails ==
  ASSUME PoolInv, NEW b \in Buffer, NEW n \in Size, MallocFails(b, n), TypeOK'
  PROVE  PoolInv'
<1>1. keys' = keys \cup {current} /\ UNCHANGED <<current, location, extent, pool, busy>>
  BY DEF MallocFails, Begin
<1>2. /\ held'[b] = Null
      /\ \A c \in Buffer \ {b} : held'[c] = held[c]
      /\ \A c \in Buffer, q \in Ptr : Holds(c, q)' <=> c # b /\ Holds(c, q)
      /\ \A q \in Ptr : q \in lost' <=> q \in lost \/ Holds(b, q)
      /\ lost' \subseteq Ptr
  BY OverwriteEffect DEF MallocFails, PoolInv
<1>3. Exclusive'
  BY <1>2 DEF Exclusive, PoolInv
<1>4. HeldIsBacked' /\ HeldIsKnown'
  BY <1>1, <1>2 DEF HeldIsBacked, HeldIsKnown, Has, PoolInv
<1>5. PoolIsExact'
  <2> SUFFICES ASSUME NEW d \in Device, NEW f \in pool[d]
               PROVE  /\ (f \in busy[d]) <=>
                           (\E c \in Buffer : Holds(c, f.data)') \/ f.data \in lost'
                      /\ f.data \in lost' => \A c \in Buffer : ~Holds(c, f.data)'
    BY <1>1 DEF PoolIsExact, PoolInv, Holds
  <2>1. f.data \in Ptr
    BY DEF PoolInv, TypeOK, CudaMemoryBuffer
  <2>2. /\ (f \in busy[d]) <=> (\E c \in Buffer : Holds(c, f.data)) \/ f.data \in lost
        /\ f.data \in lost => \A c \in Buffer : ~Holds(c, f.data)
    BY DEF PoolInv, PoolIsExact
  <2>3. \A c \in Buffer : Holds(b, f.data) /\ Holds(c, f.data) => c = b
    BY <2>1 DEF PoolInv, Exclusive
  <2>4. QED
    BY <1>2, <2>1, <2>2, <2>3
<1>6. NoLeak'
  <2> SUFFICES ASSUME NEW q \in Live, q \notin lost'
               PROVE  \/ \E c \in Buffer : Holds(c, q)'
                      \/ \E d \in Device : \E f \in pool[d] \ busy[d] : f.data = q
    BY <1>1 DEF NoLeak, Live, Holds
  <2>1. q \in Ptr /\ q \notin lost /\ ~Holds(b, q)
    BY <1>2 DEF Live
  <2>2. QED
    BY <1>2, <2>1 DEF PoolInv, NoLeak
<1>7. LostStays'
  <2> SUFFICES ASSUME NEW q \in lost'
               PROVE  location[q] # Null /\ \A c \in Buffer : ~Holds(c, q)'
    BY <1>1 DEF LostStays, Holds
  <2>1. q \in Ptr /\ (q \in lost \/ Holds(b, q))
    BY <1>2
  <2>2. location[q] # Null /\ \A c \in Buffer : Holds(c, q) => c = b
    BY <2>1, HeldAlone DEF PoolInv, LostStays
  <2>3. QED
    BY <1>2, <2>1, <2>2
<1>8. QED
  BY <1>3, <1>4, <1>5, <1>6, <1>7 DEF PoolInv

(* The loop of release stops at the pool that has the block, before any    *)
(* cudaFree.                                                               *)
LEMMA ReleaseFindsBlock ==
  ASSUME OneDevice, PoolInv, NEW b \in Buffer, held[b] # Null
  PROVE  /\ HomeDevices(held[b].ptr) = {held[b].dev}
         /\ FreeingDevices(held[b].ptr) = {}
<1>1. /\ held[b].dev \in keys
      /\ keys \subseteq Device
      /\ Has(held[b].dev, held[b].ptr)
      /\ \A d \in Device : d = held[b].dev
  BY DEF PoolInv, HeldIsKnown, OneDevice, TypeOK, Block
<1>2. held[b].dev \in Nat
  BY <1>1, ConstantsAssumption DEF ConstantsAssumption
<1>3. QED
  BY <1>1, <1>2 DEF HomeDevices, FreeingDevices

(* Giving a block back keeps it: only the busy bit of its entry changes.   *)
LEMMA PoolInvRelease ==
  ASSUME OneDevice, PoolInv, NEW b \in Buffer, Release(b), TypeOK'
  PROVE  PoolInv'
<1> USE ConstantsAssumption DEF ConstantsAssumption
<1>1. PICK p \in Ptr, d0 \in Device :
        held[b] # Null /\ p = held[b].ptr /\ d0 = held[b].dev /\ Holds(b, p)
  BY DEF Release, Holds, PoolInv, TypeOK, Block
<1>2. PICK e \in pool[d0] : /\ e.data = p
                            /\ busy' = [busy EXCEPT ![d0] = @ \ {e}]
  BY <1>1, ReleaseFindsBlock DEF Release, MarkIdle
<1>3. /\ held' = [held EXCEPT ![b] = Null]
      /\ UNCHANGED <<location, extent, pool, keys, current, lost>>
  BY <1>1, ReleaseFindsBlock DEF Release, CudaFree
<1>4. \A c \in Buffer, q \in Ptr : Holds(c, q)' <=> c # b /\ Holds(c, q)
  BY <1>3 DEF Holds, PoolInv, TypeOK
<1>5. \A c \in Buffer : ~Holds(c, p)'
  BY <1>1, <1>4 DEF Exclusive, PoolInv
<1>6. Exclusive'
  BY <1>4 DEF Exclusive, PoolInv
<1>7. HeldIsBacked' /\ HeldIsKnown'
  BY <1>3 DEF HeldIsBacked, HeldIsKnown, Has, PoolInv, TypeOK
<1>8. PoolIsExact'
  <2> SUFFICES ASSUME NEW d \in Device, NEW f \in pool[d]
               PROVE  /\ (f \in busy'[d]) <=>
                           (\E c \in Buffer : Holds(c, f.data)') \/ f.data \in lost
                      /\ f.data \in lost => \A c \in Buffer : ~Holds(c, f.data)'
    BY <1>3 DEF PoolIsExact, PoolInv, Holds
  <2>1. /\ d = d0 /\ f.data \in Ptr
        /\ (f \in busy[d]) <=> (\E c \in Buffer : Holds(c, f.data)) \/ f.data \in lost
        /\ f.data \in lost => \A c \in Buffer : ~Holds(c, f.data)
    BY <1>1 DEF OneDevice, PoolInv, PoolIsExact, TypeOK, CudaMemoryBuffer
  <2>2. CASE f = e
    <3>1. f \notin busy'[d]
      BY <1>2, <2>1, <2>2 DEF PoolInv, TypeOK
    <3>2. f.data = p /\ f.data \notin lost
      BY <1>1, <1>2, <2>1, <2>2
    <3>3. QED
      BY <1>5, <3>1, <3>2
  <2>3. CASE f # e
    <3>1. f.data # p
      BY <1>2, <2>1, <2>3 DEF PoolIsExact, PoolInv
    <3>2. \A c \in Buffer : Holds(c, f.data)' <=> Holds(c, f.data)
      BY <1>1, <1>4, <2>1, <3>1 DEF Holds
    <3>3. (f \in busy'[d]) <=> (f \in busy[d])
      BY <1>2, <2>1, <2>3 DEF PoolInv, TypeOK
    <3>4. QED
      BY <2>1, <3>2, <3>3
  <2>4. QED
    BY <2>2, <2>3
<1>9. NoLeak'
  <2> SUFFICES ASSUME NEW q \in Live \ lost
               PROVE  \/ \E c \in Buffer : Holds(c, q)'
                      \/ \E d \in Device : \E f \in pool[d] \ busy'[d] : f.data = q
    BY <1>3 DEF NoLeak, Live
  <2>1. CASE q = p
    BY <1>1, <1>2, <2>1 DEF PoolInv, TypeOK
  <2>2. CASE q # p
    <3>1. \A c \in Buffer : Holds(c, q) => Holds(c, q)'
      <4>1. Holds(b, q) => FALSE
        BY <1>1, <2>2 DEF Holds
      <4>2. q \in Ptr
        BY DEF Live
      <4>3. QED
        BY <1>4, <4>1, <4>2
    <3>2. \A d \in Device : \A f \in pool[d] \ busy[d] : f \in pool[d] \ busy'[d]
      BY <1>2 DEF PoolInv, TypeOK
    <3>3. QED
      BY <3>1, <3>2 DEF PoolInv, NoLeak
  <2>3. QED
    BY <2>1, <2>2
<1>10. LostStays'
  <2>1. \A q \in lost : q \in Ptr
    BY DEF PoolInv, TypeOK
  <2>2. QED
    BY <1>3, <1>4, <2>1 DEF LostStays, PoolInv, Holds
<1>11. QED
  BY <1>6, <1>7, <1>8, <1>9, <1>10 DEF PoolInv

(* Every step keeps it: small requests and other devices are excluded.     *)
LEMMA PoolInvStep ==
  ASSUME OneDevice, PoolInv, [Next]_vars, TypeOK'
  PROVE  PoolInv'
<1> USE ConstantsAssumption DEF ConstantsAssumption
<1>1. ASSUME NEW b \in Buffer, NEW n \in Size, Reuse(b, n)
      PROVE  PoolInv'
  BY <1>1, PoolInvReuse
<1>2. ASSUME NEW b \in Buffer, NEW n \in Size, Malloc(b, n)
      PROVE  PoolInv'
  BY <1>2, PoolInvMalloc
<1>3. ASSUME NEW b \in Buffer, NEW n \in Size, MallocFails(b, n)
      PROVE  PoolInv'
  BY <1>3, PoolInvFails
<1>4. ASSUME NEW b \in Buffer, NEW n \in Size, AllocateSmall(b, n)
      PROVE  PoolInv'
  BY <1>4 DEF AllocateSmall, OneDevice
<1>5. ASSUME NEW b \in Buffer, Release(b)
      PROVE  PoolInv'
  BY <1>5, PoolInvRelease
<1>6. ASSUME NEW d \in Device, SetDevice(d)
      PROVE  PoolInv'
  BY <1>6 DEF SetDevice, OneDevice, PoolInv, TypeOK
<1>7. CASE UNCHANGED vars
  BY <1>7 DEF vars, PoolInv, LostStays, Exclusive, HeldIsBacked, PoolIsExact,
              HeldIsKnown, NoLeak, Live, Has, Holds
<1>8. QED
  BY <1>1, <1>2, <1>3, <1>4, <1>5, <1>6, <1>7 DEF Next

(* On one device the pool never hands out a block twice, what a Buffer     *)
(* holds is allocated and of its size, the pool agrees with CUDA and with  *)
(* the owners, and no block is lost but those whose pointer                *)
(* Buffer::allocate overwrites.                                            *)
THEOREM PoolCorrect ==
  ASSUME OneDevice
  PROVE  Spec => [](Exclusive /\ HeldIsBacked /\ PoolIsExact /\ NoLeak)
<1>1. Init => PoolInv
  BY TypeInit DEF Init, PoolInv, LostStays, Exclusive, HeldIsBacked, PoolIsExact, HeldIsKnown,
     NoLeak, Live, Holds
<1>2. PoolInv /\ [Next]_vars /\ TypeOK' => PoolInv'
  BY PoolInvStep
<1>3. PoolInv => Exclusive /\ HeldIsBacked /\ PoolIsExact /\ NoLeak
  BY DEF PoolInv
<1>4. QED
  BY <1>1, <1>2, <1>3, TypeCorrect, PTL DEF Spec
-----------------------------------------------------------------------------
(* The declaration by value, on any number of devices: the pools stay      *)
(* empty and every release reaches cudaFree.                               *)
ByValue ==
  /\ ~PoolAliased
  /\ \A n \in Size : n > BigLimit

UnpooledInv ==
  /\ TypeOK
  /\ Exclusive
  /\ HeldIsBacked
  /\ HeldIsKnown
  /\ NoLeak
  /\ FreedOnce
  /\ pool = [d \in Device |-> {}]

(* A fresh block keeps the invariant of the unpooled allocator.            *)
LEMMA UnpooledInvMalloc ==
  ASSUME ByValue, UnpooledInv, NEW b \in Buffer, NEW n \in Size, Malloc(b, n), TypeOK'
  PROVE  UnpooledInv'
<1> USE ConstantsAssumption DEF ConstantsAssumption
<1>1. PICK p \in Ptr \ Live :
        /\ location' = [location EXCEPT ![p] = current]
        /\ extent' = [extent EXCEPT ![p] = n]
        /\ Occupy([data |-> p, byte_size |-> n])
        /\ Take(b, n, p)
  BY DEF Malloc
<1>2. /\ keys' = keys \cup {current}
      /\ UNCHANGED <<current, pool, misfreed>>
      /\ location[p] = Null
      /\ p \in Ptr
  BY <1>1 DEF Malloc, Begin, Occupy, ByValue, Live
<1>3. \A c \in Buffer : ~Holds(c, p)
  BY <1>2, HeldAlone DEF UnpooledInv
<1>4. /\ held'[b] = [ptr |-> p, size |-> n, dev |-> current]
      /\ \A c \in Buffer \ {b} : held'[c] = held[c]
      /\ \A c \in Buffer, q \in Ptr :
           Holds(c, q)' <=> IF c = b THEN q = p ELSE Holds(c, q)
      /\ \A q \in Ptr : q \in lost' <=> q \in lost \/ Holds(b, q)
  BY <1>1, <1>2, TakeEffect DEF UnpooledInv
<1>5. Exclusive'
  BY <1>3, <1>4 DEF Exclusive, UnpooledInv
<1>6. ASSUME NEW c \in Buffer, held'[c] # Null
      PROVE  /\ location'[held'[c].ptr] = held'[c].dev
             /\ held'[c].size <= extent'[held'[c].ptr]
             /\ extent'[held'[c].ptr] - held'[c].size < Slack
             /\ held'[c].dev \in keys'
  <2>1. CASE c = b
    BY <1>1, <1>2, <1>4, <2>1 DEF UnpooledInv, TypeOK
  <2>2. CASE c # b
    <3>1. held'[c] = held[c] /\ held[c].ptr # p /\ held[c].ptr \in Ptr
      BY <1>3, <1>4, <1>6, <2>2 DEF Holds, UnpooledInv, TypeOK, Block
    <3>2. QED
      BY <1>1, <1>2, <1>6, <3>1 DEF HeldIsBacked, HeldIsKnown, UnpooledInv, TypeOK
  <2>3. QED
    BY <2>1, <2>2
<1>7. NoLeak'
  <2> SUFFICES ASSUME NEW q \in Live', q \notin lost'
               PROVE  \E c \in Buffer : Holds(c, q)'
    BY DEF NoLeak
  <2>1. CASE q = p
    BY <1>2, <1>4, <2>1
  <2>2. CASE q # p
    <3>1. q \in Live /\ q \in Ptr /\ q \notin lost /\ ~Holds(b, q)
      BY <1>1, <1>4, <2>2 DEF Live, UnpooledInv, TypeOK
    <3>2. PICK c \in Buffer : Holds(c, q)
      BY <3>1 DEF NoLeak, UnpooledInv
    <3>3. c # b
      BY <3>1, <3>2
    <3>4. QED
      BY <1>4, <3>1, <3>2, <3>3
  <2>3. QED
    BY <2>1, <2>2
<1>8. FreedOnce'
  BY <1>2 DEF FreedOnce, UnpooledInv
<1>9. QED
  BY <1>2, <1>5, <1>6, <1>7, <1>8 DEF UnpooledInv, HeldIsBacked, HeldIsKnown, ByValue

(* When cudaMalloc fails only the Buffer that asked has lost its block.     *)
LEMMA UnpooledInvFails ==
  ASSUME ByValue, UnpooledInv, NEW b \in Buffer, NEW n \in Size, MallocFails(b, n), TypeOK'
  PROVE  UnpooledInv'
<1>1. /\ keys' = keys \cup {current}
      /\ UNCHANGED <<current, location, extent, pool, busy, misfreed>>
  BY DEF MallocFails, Begin
<1>2. /\ held'[b] = Null
      /\ \A c \in Buffer \ {b} : held'[c] = held[c]
      /\ \A c \in Buffer, q \in Ptr : Holds(c, q)' <=> c # b /\ Holds(c, q)
      /\ \A q \in Ptr : q \in lost' <=> q \in lost \/ Holds(b, q)
  BY OverwriteEffect DEF MallocFails, UnpooledInv
<1>3. Exclusive'
  BY <1>2 DEF Exclusive, UnpooledInv
<1>4. HeldIsBacked' /\ HeldIsKnown'
  BY <1>1, <1>2 DEF HeldIsBacked, HeldIsKnown, Has, UnpooledInv
<1>5. NoLeak'
  <2> SUFFICES ASSUME NEW q \in Live, q \notin lost'
               PROVE  \E c \in Buffer : Holds(c, q)'
    BY <1>1 DEF NoLeak, Live, Holds
  <2>1. q \in Ptr /\ q \notin lost /\ ~Holds(b, q)
    BY <1>2 DEF Live
  <2>2. PICK c \in Buffer : Holds(c, q)
    BY <2>1 DEF NoLeak, UnpooledInv
  <2>3. QED
    BY <1>2, <2>1, <2>2
<1>6. FreedOnce'
  BY <1>1 DEF FreedOnce, UnpooledInv
<1>7. QED
  BY <1>1, <1>3, <1>4, <1>5, <1>6 DEF UnpooledInv

(* A release frees exactly the block the Buffer held.                      *)
LEMMA UnpooledInvRelease ==
  ASSUME ByValue, UnpooledInv, NEW b \in Buffer, Release(b), TypeOK'
  PROVE  UnpooledInv'
<1> USE ConstantsAssumption DEF ConstantsAssumption
<1>1. PICK p \in Ptr, d0 \in keys :
        held[b] # Null /\ p = held[b].ptr /\ d0 = held[b].dev /\ Holds(b, p)
  BY DEF Release, Holds, HeldIsKnown, UnpooledInv, TypeOK, Block
<1>2. d0 \in FreeingDevices(p)
  BY <1>1 DEF FreeingDevices, Has, UnpooledInv, TypeOK
<1>3. /\ held' = [held EXCEPT ![b] = Null]
      /\ location' = [location EXCEPT ![p] = Null]
      /\ UNCHANGED <<extent, pool, keys, lost>>
  BY <1>1, <1>2 DEF Release, CudaFree
<1>4. \A c \in Buffer, q \in Ptr : Holds(c, q)' <=> c # b /\ Holds(c, q)
  BY <1>3 DEF Holds, UnpooledInv, TypeOK
<1>5. Exclusive'
  BY <1>4 DEF Exclusive, UnpooledInv
<1>6. \A c \in Buffer : held'[c] # Null =>
        c # b /\ held'[c] = held[c] /\ held[c].ptr # p /\ held[c].ptr \in Ptr
  BY <1>1, <1>3 DEF Holds, Exclusive, UnpooledInv, TypeOK, Block
<1>7. HeldIsBacked' /\ HeldIsKnown'
  BY <1>3, <1>6 DEF HeldIsBacked, HeldIsKnown, ByValue, UnpooledInv, TypeOK
<1>8. NoLeak'
  <2> SUFFICES ASSUME NEW q \in Live', q \notin lost
               PROVE  \E c \in Buffer : Holds(c, q)'
    BY <1>3 DEF NoLeak
  <2>1. q \in Live /\ q \in Ptr /\ q # p
    BY <1>1, <1>3 DEF Live, UnpooledInv, TypeOK
  <2>2. PICK c \in Buffer : Holds(c, q)
    BY <2>1 DEF NoLeak, UnpooledInv
  <2>3. c # b
    BY <1>1, <2>1, <2>2 DEF Holds
  <2>4. QED
    BY <1>4, <2>1, <2>2, <2>3
<1>9. FreedOnce'
  <2>1. location[p] # Null
    BY <1>1, ConstantsAssumption DEF HeldIsBacked, UnpooledInv, TypeOK, Block
  <2>2. (\A c, d \in keys : c = d) => misfreed' = misfreed
    BY <1>1, <2>1 DEF Release, CudaFree, FreeingDevices
  <2>3. QED
    BY <1>3, <2>2 DEF FreedOnce, UnpooledInv
<1>10. QED
  BY <1>3, <1>5, <1>7, <1>8, <1>9 DEF UnpooledInv

(* Every step keeps the invariant of the unpooled allocator.               *)
LEMMA UnpooledInvStep ==
  ASSUME ByValue, UnpooledInv, [Next]_vars, TypeOK'
  PROVE  UnpooledInv'
<1> USE ConstantsAssumption DEF ConstantsAssumption
<1>1. ASSUME NEW b \in Buffer, NEW n \in Size, Reuse(b, n)
      PROVE  UnpooledInv'
  BY <1>1 DEF Reuse, BestFit, Fitting, UnpooledInv, TypeOK
<1>2. ASSUME NEW b \in Buffer, NEW n \in Size, Malloc(b, n)
      PROVE  UnpooledInv'
  BY <1>2, UnpooledInvMalloc
<1>3. ASSUME NEW b \in Buffer, NEW n \in Size, MallocFails(b, n)
      PROVE  UnpooledInv'
  BY <1>3, UnpooledInvFails
<1>4. ASSUME NEW b \in Buffer, NEW n \in Size, AllocateSmall(b, n)
      PROVE  UnpooledInv'
  BY <1>4 DEF AllocateSmall, ByValue
<1>5. ASSUME NEW b \in Buffer, Release(b)
      PROVE  UnpooledInv'
  BY <1>5, UnpooledInvRelease
<1>6. ASSUME NEW d \in Device, SetDevice(d)
      PROVE  UnpooledInv'
  BY <1>6 DEF SetDevice, UnpooledInv, Exclusive, HeldIsBacked,
              HeldIsKnown, NoLeak, FreedOnce, Live, Has, Holds
<1>7. CASE UNCHANGED vars
  BY <1>7 DEF vars, UnpooledInv, Exclusive, HeldIsBacked,
              HeldIsKnown, NoLeak, FreedOnce, Live, Has, Holds
<1>8. QED
  BY <1>1, <1>2, <1>3, <1>4, <1>5, <1>6, <1>7 DEF Next

(* With the pool declared by value nothing is cached: on any number of     *)
(* devices every block a Buffer holds is its own and backed, and every      *)
(* other block is freed, but those whose pointer Buffer::allocate           *)
(* overwrites; each is freed once as long as one device is used.            *)
THEOREM UnpooledCorrect ==
  ASSUME ByValue
  PROVE  Spec => [](Exclusive /\ HeldIsBacked /\ NoLeak /\ FreedOnce)
<1>1. Init => UnpooledInv
  BY TypeInit DEF Init, UnpooledInv, Exclusive, HeldIsBacked, HeldIsKnown,
     NoLeak, FreedOnce, Live, Holds
<1>2. UnpooledInv /\ [Next]_vars /\ TypeOK' => UnpooledInv'
  BY UnpooledInvStep
<1>3. UnpooledInv => Exclusive /\ HeldIsBacked /\ NoLeak /\ FreedOnce
  BY DEF UnpooledInv
<1>4. QED
  BY <1>1, <1>2, <1>3, TypeCorrect, PTL DEF Spec
-----------------------------------------------------------------------------
(* Refinement: under both uses the allocator implements DeviceMemory.      *)

(* A block a Buffer takes when no Buffer holds it, and that is allocated   *)
(* afterwards, is a Grant of the contract, whatever the taker held.        *)
LEMMA TakeIsGrant ==
  ASSUME TypeOK, TypeOK', NEW b \in Buffer, NEW n \in Size, NEW p \in Ptr,
         Take(b, n, p),
         \A c \in Buffer : ~Holds(c, p),
         Live' = Live \cup {p}
  PROVE  Contract!Grant(b)
<1>1. held' = [held EXCEPT ![b] = [ptr |-> p, size |-> n, dev |-> current]]
  BY DEF Take, Overwrite
<1>2. held'[b] = [ptr |-> p, size |-> n, dev |-> current] /\ held'[b] # Null
  BY <1>1, ConstantsAssumption DEF ConstantsAssumption, TypeOK, Block
<1>3. \A c \in Buffer : held[c] # Null => held[c].ptr # p
  BY DEF Holds
<1>4. held' = [held EXCEPT ![b] = held'[b]]
  BY <1>1, <1>2
<1>5. held'[b].ptr = p
  BY <1>2
<1>6. QED
  BY <1>2, <1>3, <1>4, <1>5 DEF Contract!Grant, Contract!Unheld

(* A step of the allocator is a step of the contract or a stutter.         *)
LEMMA PoolStepRefines ==
  ASSUME PoolInv \/ UnpooledInv, OneDevice \/ ByValue, TypeOK', [Next]_vars
  PROVE  [Contract!Next]_<<Live, held>>
<1> USE ConstantsAssumption DEF ConstantsAssumption
<1>0. TypeOK /\ HeldIsBacked
  BY DEF PoolInv, UnpooledInv
<1>1. ASSUME NEW b \in Buffer, NEW n \in Size, Reuse(b, n)
      PROVE  Contract!Grant(b)
  <2>1. PICK e \in BestFit(n) : Occupy(e) /\ Take(b, n, e.data)
    BY <1>1 DEF Reuse
  <2>2. e \in pool[current] \ busy[current] /\ e.data \in Ptr
    BY <1>0 DEF BestFit, Fitting, TypeOK, CudaMemoryBuffer
  <2>3. PoolIsExact
    BY <1>0, <2>2 DEF PoolInv, UnpooledInv, TypeOK
  <2>4. (\A c \in Buffer : ~Holds(c, e.data)) /\ e.data \in Live
    BY <1>0, <2>2, <2>3 DEF PoolIsExact, TypeOK, Live
  <2>5. Live' = Live \cup {e.data}
    BY <1>1, <2>4 DEF Reuse, Begin, Live
  <2>6. QED
    BY <1>0, <2>1, <2>2, <2>4, <2>5, TakeIsGrant
<1>2. ASSUME NEW b \in Buffer, NEW n \in Size, Malloc(b, n)
      PROVE  Contract!Grant(b)
  <2>1. PICK p \in Ptr \ Live :
          location' = [location EXCEPT ![p] = current] /\ Take(b, n, p)
    BY <1>2 DEF Malloc
  <2>2. Live' = Live \cup {p}
    BY <1>0, <2>1 DEF Live, TypeOK
  <2>3. \A c \in Buffer : ~Holds(c, p)
    BY <1>0, <2>1 DEF Holds, HeldIsBacked, TypeOK, Block, Live
  <2>4. QED
    BY <1>0, <2>1, <2>2, <2>3, TakeIsGrant
<1>3. ASSUME NEW b \in Buffer, Release(b)
      PROVE  Contract!Return(b)
  <2>1. PICK p \in Ptr : held[b] # Null /\ p = held[b].ptr
    BY <1>0, <1>3 DEF Release, TypeOK, Block
  <2>2. location' \in {location, [location EXCEPT ![p] = Null]}
    BY <1>3, <2>1 DEF Release, CudaFree
  <2>3. Live' \in {Live, Live \ {p}}
    BY <1>0, <2>2 DEF Live, TypeOK
  <2>4. QED
    BY <1>3, <2>1, <2>3 DEF Release, Contract!Return
<1>4. ASSUME NEW b \in Buffer, NEW n \in Size, MallocFails(b, n)
      PROVE  Contract!Return(b) \/ UNCHANGED <<Live, held>>
  <2>1. held' = [held EXCEPT ![b] = Null] /\ Live' = Live
    BY <1>4 DEF MallocFails, Overwrite, Live
  <2>2. held[b] = Null => held' = held
    BY <1>0, <2>1 DEF TypeOK
  <2>3. QED
    BY <2>1, <2>2 DEF Contract!Return
<1>5. ASSUME NEW b \in Buffer, NEW n \in Size, AllocateSmall(b, n)
      PROVE  FALSE
  BY <1>5 DEF AllocateSmall, OneDevice, ByValue
<1>6. ASSUME NEW d \in Device, SetDevice(d)
      PROVE  UNCHANGED <<Live, held>>
  BY <1>6 DEF SetDevice, Live
<1>7. CASE UNCHANGED vars
  BY <1>7 DEF vars, Live
<1>8. QED
  BY <1>1, <1>2, <1>3, <1>4, <1>5, <1>6, <1>7 DEF Next, Contract!Next

(* The caching allocator on one device, and the one that caches nothing on *)
(* any number of devices, give the Buffers what DeviceMemory promises.     *)
THEOREM AllocatorImplementsDeviceMemory ==
  ASSUME OneDevice \/ ByValue
  PROVE  Spec => ImplementsDeviceMemory
<1>1. Init => (OneDevice => PoolInv) /\ (ByValue => UnpooledInv)
  BY TypeInit DEF Init, PoolInv, LostStays, UnpooledInv, Exclusive, HeldIsBacked, PoolIsExact,
     HeldIsKnown, NoLeak, FreedOnce, Live, Holds
<1>2. Init => Contract!Init
  BY DEF Init, Contract!Init, Live
<1>3. CASE OneDevice
  <2>1. Init => PoolInv
    BY <1>1, <1>3
  <2>2. PoolInv /\ [Next]_vars /\ TypeOK' => PoolInv'
    BY <1>3, PoolInvStep
  <2>3. PoolInv /\ [Next]_vars /\ TypeOK' => [Contract!Next]_<<Live, held>>
    BY <1>3, PoolStepRefines
  <2>4. QED
    BY <1>2, <2>1, <2>2, <2>3, TypeCorrect, PTL
       DEF Spec, ImplementsDeviceMemory, Contract!Spec
<1>4. CASE ByValue
  <2>1. Init => UnpooledInv
    BY <1>1, <1>4
  <2>2. UnpooledInv /\ [Next]_vars /\ TypeOK' => UnpooledInv'
    BY <1>4, UnpooledInvStep
  <2>3. UnpooledInv /\ [Next]_vars /\ TypeOK' => [Contract!Next]_<<Live, held>>
    BY <1>4, PoolStepRefines
  <2>4. QED
    BY <1>2, <2>1, <2>2, <2>3, TypeCorrect, PTL
       DEF Spec, ImplementsDeviceMemory, Contract!Spec
<1>5. QED
  BY <1>3, <1>4

-----------------------------------------------------------------------------
(* The first pool *)

(* A pool with an entry is in the map, and what the pool of the lowest      *)
(* device lists is allocated there.                                        *)
FirstPoolInv ==
  /\ FirstPoolIsAllocated
  /\ \A d \in Device : pool[d] # {} => d \in keys

(* The loop of release stops at the first device whose pool has the block,  *)
(* before it has freed anything.                                           *)
LEMMA FirstPoolStep ==
  ASSUME TypeOK, TypeOK', FirstPoolInv, [Next]_vars
  PROVE  FirstPoolInv'
<1> USE ConstantsAssumption DEF ConstantsAssumption
<1> DEFINE First(d) == d \in Device /\ \A c \in Device : d <= c
<1>1. ASSUME NEW b \in Buffer, NEW n \in Size, Reuse(b, n)
      PROVE  FirstPoolInv'
  <2>1. PICK e \in pool[current] : Occupy(e)
    BY <1>1 DEF Reuse, BestFit, Fitting
  <2>2. pool' = pool
    <3>1. pool[current] \cup {e} = pool[current]
      BY <2>1
    <3>2. pool \in [Device -> SUBSET CudaMemoryBuffer]
      BY DEF TypeOK
    <3>3. [pool EXCEPT ![current] = pool[current]] = pool
      BY <3>2
    <3>4. QED
      BY <2>1, <3>1, <3>3 DEF Occupy
  <2>3. location' = location /\ keys \subseteq keys'
    BY <1>1 DEF Reuse, Begin
  <2>4. QED
    BY <2>2, <2>3 DEF FirstPoolInv, FirstPoolIsAllocated
<1>2. ASSUME NEW b \in Buffer, NEW n \in Size, Malloc(b, n)
      PROVE  FirstPoolInv'
  <2>1. PICK p \in Ptr \ Live :
          /\ location' = [location EXCEPT ![p] = current]
          /\ Occupy([data |-> p, byte_size |-> n])
    BY <1>2 DEF Malloc
  <2> DEFINE new == [data |-> p, byte_size |-> n]
  <2>2. location[p] = Null /\ keys' = keys \cup {current}
    BY <1>2, <2>1 DEF Live, Malloc, Begin
  <2>3. \A d \in Device : pool'[d] \subseteq pool[d] \cup (IF d = current THEN {new} ELSE {})
    BY <2>1 DEF Occupy, TypeOK
  <2>4. ASSUME NEW d \in Device, First(d), NEW e \in pool'[d]
        PROVE  location'[e.data] = d
    <3>1. CASE e \in pool[d]
      <4>1. e.data \in Ptr /\ location[e.data] = d
        BY <2>4, <3>1 DEF FirstPoolInv, FirstPoolIsAllocated, TypeOK, CudaMemoryBuffer
      <4>2. e.data # p
        BY <2>2, <4>1
      <4>3. QED
        BY <2>1, <4>1, <4>2 DEF TypeOK
    <3>2. CASE e = new /\ d = current
      BY <2>1, <3>2 DEF TypeOK
    <3>3. QED
      BY <2>3, <2>4, <3>1, <3>2
  <2>5. \A d \in Device : pool'[d] # {} => d \in keys'
    BY <2>2, <2>3 DEF FirstPoolInv
  <2>6. QED
    BY <2>4, <2>5 DEF FirstPoolInv, FirstPoolIsAllocated
<1>3. ASSUME NEW b \in Buffer, Release(b)
      PROVE  FirstPoolInv'
  <2> DEFINE p == held[b].ptr
  <2>1. /\ pool' = pool /\ keys' = keys
        /\ location' = IF FreeingDevices(p) = {} THEN location
                       ELSE [location EXCEPT ![p] = Null]
    BY <1>3 DEF Release, CudaFree
  <2>2. ASSUME NEW d \in Device, First(d), NEW e \in pool[d]
        PROVE  location'[e.data] = d
    <3>1. location[e.data] = d /\ d \in keys /\ e.data \in Ptr
      BY <2>2 DEF FirstPoolInv, FirstPoolIsAllocated, TypeOK, CudaMemoryBuffer
    <3>2. CASE e.data = p
      <4>1. FreeingDevices(p) = {}
        BY <2>2, <3>1, <3>2 DEF FreeingDevices, Has, TypeOK
      <4>2. QED
        BY <2>1, <3>1, <4>1
    <3>3. CASE e.data # p
      BY <2>1, <3>1, <3>3 DEF TypeOK
    <3>4. QED
      BY <3>2, <3>3
  <2>3. QED
    BY <2>1, <2>2 DEF FirstPoolInv, FirstPoolIsAllocated
<1>4. ASSUME \/ \E b \in Buffer, n \in Size : MallocFails(b, n) \/ AllocateSmall(b, n)
             \/ \E d \in Device : SetDevice(d)
             \/ UNCHANGED vars
      PROVE  FirstPoolInv'
  <2>1. pool' = pool /\ location' = location /\ keys \subseteq keys'
    BY <1>4 DEF MallocFails, AllocateSmall, SetDevice, Begin, vars
  <2>2. QED
    BY <2>1 DEF FirstPoolInv, FirstPoolIsAllocated
<1>5. QED
  BY <1>1, <1>2, <1>3, <1>4 DEF Next

(* Whatever is released, wherever, and whatever sizes are asked for: the    *)
(* pool of the device that comes first in the map stays allocated           *)
(* (alloc_cu.cpp:115-127).                                                 *)
THEOREM FirstPoolSurvives == Spec => []FirstPoolIsAllocated
<1>1. Init => FirstPoolInv
  BY DEF Init, FirstPoolInv, FirstPoolIsAllocated
<1>2. TypeOK /\ TypeOK' /\ FirstPoolInv /\ [Next]_vars => FirstPoolInv'
  BY FirstPoolStep
<1>3. FirstPoolInv => FirstPoolIsAllocated
  BY DEF FirstPoolInv
<1>4. QED
  BY <1>1, <1>2, <1>3, TypeCorrect, PTL DEF Spec
=============================================================================
