-------------------------------- MODULE MCBio --------------------------------
EXTENDS Bio, TLC

ProcSymmetry == Permutations(Procs)
=============================================================================
