------------------------- MODULE MCAccountLifetime -------------------------
(* AccountLifetime on a small instance. *)
EXTENDS AccountLifetime, TLC

Symmetry == Permutations(Actors)
=============================================================================
