--------------------------- MODULE MCPodBalancing ---------------------------
(***************************************************************************)
(* Small instances of PodBalancing for TLC.                                *)
(***************************************************************************)
EXTENDS PodBalancing

CONSTANTS p1, p2

OnePolicy   == {p1}
TwoPolicies == {p1, p2}
=============================================================================
