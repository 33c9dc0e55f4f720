-------------------------------- MODULE MCRing --------------------------------
EXTENDS Ring, TLC

Symmetry == Permutations(Consumers) \cup Permutations(Words)
=============================================================================
