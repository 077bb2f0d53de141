---------------------------- MODULE MCTraefikAgent ----------------------------
(* Small instances of TraefikAgent for TLC. *)
EXTENDS TraefikAgent

CONSTANTS a, b, plain, renamed, strict

\* Three sets: one file, both files, and the other file only.
MCOutputs == [t \in Sets |-> IF t = plain THEN {a} ELSE IF t = renamed THEN {a, b} ELSE {b}]

\* The third renders only the empty snapshot, and not with the stale flag.
MCBad == [t \in Sets |-> IF t = strict THEN {"data", "stale"} ELSE {}]
=============================================================================
