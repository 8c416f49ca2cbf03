------------------------------- MODULE MCPipe -------------------------------
EXTENDS Pipe, TLC

Symmetry == Permutations(Writer) \cup Permutations(Reader) \cup Permutations(Byte)
=============================================================================
