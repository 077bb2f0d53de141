-------------------------- MODULE MCProviderSession --------------------------
(* Small instances of ProviderSession for TLC. *)
EXTENDS ProviderSession, TLC

\* Sessions are interchangeable, in runs without liveness.
Symmetry == Permutations(Sessions)
=============================================================================
