------------------------------ MODULE MCTable ------------------------------
(* Instances of Table.tla for TLC. *)
EXTENDS TableInv

CONSTANTS k1, k2, k3, v1

MCKey   == {k1, k2, k3}
MCValue == {NIL, v1}

\* The first two collide in four slots and not in eight, the third collides
\* with the first in both; their home is the last slot, so probes wrap.
MCHash == [k \in MCKey |-> CASE k = k1 -> 7 [] k = k2 -> 3 [] k = k3 -> 7]
=============================================================================
