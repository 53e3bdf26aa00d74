----------------------------- MODULE MCBitmapPool -----------------------------
(***************************************************************************)
(* Instances of BitmapPool.                                                *)
(***************************************************************************)
EXTENDS BitmapPool, TLC

CONSTANTS r1, r2, r3, r4, x1, x2, x3, n1, n2

MCRefs == {r1, r2, r3}
MCMoreRefs == {r1, r2, r3, r4}
MCTextures == {x1, x2, x3}
MCTwoTextures == {x1, x2}
MCNodes == {n1, n2}
MCOneNode == {n1}

Symmetry ==
    Permutations(MCRefs) \cup Permutations(MCTwoTextures)
SymmetryMore ==
    Permutations(MCMoreRefs) \cup Permutations(MCTextures) \cup Permutations(MCNodes)
=============================================================================
