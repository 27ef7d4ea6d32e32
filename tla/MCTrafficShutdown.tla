------------------------- MODULE MCTrafficShutdown -------------------------
EXTENDS TrafficShutdown, TLC

Symmetry == Permutations(Generators)
=============================================================================
