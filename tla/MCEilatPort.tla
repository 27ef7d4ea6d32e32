---------------------------- MODULE MCEilatPort ----------------------------
EXTENDS EilatPort, TLC

Symmetry == Permutations(Vessels)
=============================================================================
