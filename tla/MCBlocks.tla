------------------------------ MODULE MCBlocks ------------------------------
EXTENDS Blocks
=============================================================================
