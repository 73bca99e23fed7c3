----------------------------- MODULE MCInference ------------------------------
(* Small instances of ModelLoad and AddLayer.  They share nothing, so one of *)
(* the two runs, and the other stays as it starts.                         *)
EXTENDS ModelLoad, AddLayer

VARIABLE part

File(dim, layers, heads, kv, vocab, group, entire) ==
  [config |-> [dim |-> dim, layer_num |-> layers, head_num |-> heads, kv_head_num |-> kv,
               vocab_size |-> vocab],
   group_size |-> group, entire |-> entire]

(* One whose heads divide evenly, one whose heads do not and whose offsets  *)
(* overflow, one without heads, and one of a negative dimension.           *)
MCFiles ==
  {File(4, 2, 2, 1, -3, 2, FALSE), File(5, 3, 2, 3, 8, 3, TRUE), File(4, 2, 0, 1, 3, 4, TRUE),
   File(-5, 1, 2, 3, 2, -1, TRUE)}

MCBuffer == {"h1", "g1", "g2"}

MCHost == {"h1"}

MCSize == [b \in MCBuffer |-> IF b = "g2" THEN 3 ELSE 4]

Init ==
  /\ LoadInit
  /\ AddInit
  /\ \/ part = "load" /\ device_type_ = "Unknown" /\ output = "h1" /\ backed = {}
     \/ part = "add" /\ ~id_quant_model_ /\ content = File(5, 3, 2, 3, 8, 3, TRUE)
        /\ file = content

Next ==
  \/ part = "load" /\ LoadNext /\ UNCHANGED <<addVars, part>>
  \/ part = "add" /\ AddNext /\ UNCHANGED <<loadVars, part>>

Spec == Init /\ [][Next]_<<loadVars, addVars, part>>
=============================================================================
