-------------------------------- MODULE MCLog --------------------------------
EXTENDS Log, TLC

BlockSymmetry == Permutations(Blocks)
=============================================================================
