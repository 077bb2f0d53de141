------------------------- MODULE MCSnapshotDelivery -------------------------
(* Small instances of SnapshotDelivery for TLC. *)
EXTENDS SnapshotDelivery, TLC

CONSTANTS p2, big

\* A value of p2 makes the snapshot too large.
Bulky == {<<p2, big>>}
=============================================================================
