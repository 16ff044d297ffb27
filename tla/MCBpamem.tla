------------------------------ MODULE MCBpamem ------------------------------
(* Three callers for two devices, so that the search may find nothing, and  *)
(* pages in two partitions, one of which is soon used up.                   *)
EXTENDS Bpamem

CONSTANTS p1, p2, p3, g1, g2, g3, planes, video

MCCallers == {p1, p2, p3}
MCPages   == {g1, g2, g3}
MCParts   == {planes, video}
MCPartOf  == [g \in MCPages |-> IF g = g1 THEN planes ELSE video]
=============================================================================
