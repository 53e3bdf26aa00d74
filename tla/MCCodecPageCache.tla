--------------------------- MODULE MCCodecPageCache ---------------------------
(* CodecPageCache for small documents, views and settings.                   *)
EXTENDS CodecPageCache, TLC

CONSTANTS i1, i2, i3, i4

MCIndices == {i1, i2, i3, i4}
Symmetry == Permutations(MCIndices)
MCWindows == 1 .. 3
MCOneWindow == {1}
MCSizes == {1, 2}
MCSizeZero == {0}
=============================================================================
