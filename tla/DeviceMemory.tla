---------------------------- MODULE DeviceMemory -----------------------------
(***************************************************************************)
(* What base::DeviceAllocator promises to the Buffers that use it: a block *)
(* is granted to one Buffer at a time and is allocated for as long as that *)
(* Buffer holds it.  How blocks are found, cached and given back to the    *)
(* driver is left open, and so is what becomes of the block of a Buffer    *)
(* that allocates again while it holds one: it may stay allocated for good. *)
(***************************************************************************)
CONSTANTS Device, Ptr, Buffer, Null

VARIABLES
  live,   \* the addresses that are allocated
  held    \* the block each Buffer owns, or Null

Unheld(p) == \A b \in Buffer : held[b] # Null => held[b].ptr # p

Init ==
  /\ live = {}
  /\ held = [b \in Buffer |-> Null]

(* A Buffer gets a block no Buffer holds, nor did until then.              *)
Grant(b) ==
  /\ held' = [held EXCEPT ![b] = held'[b]]
  /\ held'[b] # Null
  /\ held'[b].ptr \in Ptr
  /\ Unheld(held'[b].ptr)
  /\ live' = live \cup {held'[b].ptr}

(* A Buffer gives its block back, or drops it when no other can be had; the *)
(* allocator may keep it allocated.                                        *)
Return(b) ==
  /\ held[b] # Null
  /\ held' = [held EXCEPT ![b] = Null]
  /\ live' \in {live, live \ {held[b].ptr}}

Next == \E b \in Buffer : Grant(b) \/ Return(b)

Spec == Init /\ [][Next]_<<live, held>>
=============================================================================
