--------------------------- MODULE MCTokenRotation ---------------------------
EXTENDS TokenRotation, TLC
Symmetry == Permutations(Tab)
=============================================================================
