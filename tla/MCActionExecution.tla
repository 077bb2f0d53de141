------------------------- MODULE MCActionExecution -------------------------
(* ActionExecution on small instances; the cfg files choose the changes, the *)
(* owner's requests and the faults. *)
EXTENDS ActionExecution, TLC

Symmetry == Permutations(Workers) \cup Permutations(Manuals)
=============================================================================
