------------------------------ MODULE MCCanal ------------------------------
EXTENDS Canal, TLC

Symmetry == Permutations(Vessels)
=============================================================================
