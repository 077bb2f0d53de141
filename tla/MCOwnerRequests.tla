-------------------------- MODULE MCOwnerRequests --------------------------
(* OwnerRequests on a small instance: a device that delivers to a *)
(* provider and updates a DNS record with a credential. *)
EXTENDS OwnerRequests, TLC

CONSTANTS home, key, edge, delivery, dns, r1, r2, r3

MCDeviceOf == (delivery :> home) @@ (dns :> home)
MCTargetOf == (delivery :> edge) @@ (dns :> key)

\* Two requests of any kind but one, and one that turns an action on or off or detaches it.
Kinds == {"register", "limit", "device", "create", "rename", "remove", "issue",
          "withdraw", "attach", "reconfigure", "channel"}
MCMayAsk == (r1 :> Kinds) @@ (r2 :> Kinds) @@ (r3 :> {"action"})

Symmetry == Permutations({r1, r2}) \cup Permutations(Names)
=============================================================================
