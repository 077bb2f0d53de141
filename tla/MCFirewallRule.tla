-------------------------- MODULE MCFirewallRule --------------------------
(* FirewallRule on small instances: two actions on one firewall. *)
EXTENDS FirewallRule, TLC

CONSTANTS x, y, a1, a2, s

\* The devices of x and y may both report an address that had been entered by
\* hand, too; x has others of its own.
Overlapping ==
  (x :> [ipv4 |-> {a1, a2}, ipv6 |-> {s}]) @@ (y :> [ipv4 |-> {}, ipv6 |-> {s}])

Symmetry == Permutations(Tasks) \cup Permutations({a1, a2})
=============================================================================
