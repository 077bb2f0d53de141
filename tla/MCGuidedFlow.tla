---------------------------- MODULE MCGuidedFlow ----------------------------
(* GuidedFlow on a small instance. *)
EXTENDS GuidedFlow, TLC

Symmetry == Permutations(Values)
=============================================================================
