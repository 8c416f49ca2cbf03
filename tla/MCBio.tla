-------------------------------- MODULE MCBio -------------------------------
EXTENDS Bio, TLC

Symmetry == Permutations(Proc) \cup Permutations(Buf)
=============================================================================
