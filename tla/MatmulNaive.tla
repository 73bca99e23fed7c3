----------------------------- MODULE MatmulNaive ------------------------------
(***************************************************************************)
(* mysgemm_v1 of cuda_learn/matmul/matmul.cu (5-20): a thread for every    *)
(* element of C, which adds the products of its row and column one by one. *)
(* It is what the kernels with tiles promise.  A floating-point sum depends *)
(* on the order of its terms, so tmp is the sequence of the inner indexes  *)
(* added so far.                                                           *)
(***************************************************************************)
EXTENDS Integers, Sequences

CONSTANT Grid   \* <<gy, gx>> of every thread of the launch

VARIABLES
  args,    \* M, N and K
  tmp,     \* the products each thread has added
  stored   \* the threads that have written their element of C

vars == <<args, tmp, stored>>

Init ==
  /\ args \in [M : Nat, N : Nat, K : Nat]
  /\ tmp = [e \in Grid |-> <<>>]
  /\ stored = {}

(* Threads beyond the matrix return at once.                               *)
Inside == {e \in Grid : e[2] < args.N /\ e[1] < args.M}

(* The threads of E, some of a warp, go through the loop together.         *)
AddProduct(E) ==
  /\ \A e \in E : Len(tmp[e]) < args.K
  /\ tmp' = [e \in Grid |-> IF e \in E THEN Append(tmp[e], Len(tmp[e])) ELSE tmp[e]]
  /\ UNCHANGED <<args, stored>>

Store(E) ==
  /\ \A e \in E : Len(tmp[e]) = args.K /\ e \notin stored
  /\ stored' = stored \cup E
  /\ UNCHANGED <<args, tmp>>

Next == \E E \in SUBSET Inside : AddProduct(E) \/ Store(E)

Spec == Init /\ [][Next]_vars
=============================================================================
