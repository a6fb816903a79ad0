-------------------------------- MODULE MCTim --------------------------------
EXTENDS CvmxTim, TLC

Symmetry == Permutations(Chunk) \cup Permutations(Work)
==============================================================================
