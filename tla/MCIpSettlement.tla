--------------------------- MODULE MCIpSettlement ---------------------------
(* IpSettlement on small instances; the cfg files choose requests, edits and *)
(* faults. *)
EXTENDS IpSettlement, TLC

Symmetry == Permutations(Requests) \cup Permutations(Workers)
              \cup Permutations(Actions) \cup Permutations(Addr)
=============================================================================
