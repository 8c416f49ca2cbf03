------------------------------- MODULE MCLog --------------------------------
\* Small instances of Log for TLC.
EXTENDS Log, TLC

\* Processes and home blocks are interchangeable; contents are not (InitVal).
Symmetry == Permutations(Proc) \cup Permutations(Block)
=============================================================================
