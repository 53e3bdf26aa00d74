--------------------------- MODULE MCDecodeService ---------------------------
(* DecodeService on small sets of nodes, zooms, decode tasks and searches.   *)
EXTENDS DecodeService, TLC

CONSTANTS n1, n2, z1, z2

MCNodes == {n1, n2}
MCOneZoom == {z1}
MCZooms == {z1, z2}

\* Neither nodes nor zooms are ordered or told apart by the code modelled.
Symmetry == Permutations(MCNodes) \cup Permutations(MCZooms)
=============================================================================
