------------------------------- MODULE MCLog -------------------------------
EXTENDS Log, TLC

\* A block is only its number: the code treats all of them alike.
Symmetry == Permutations(Procs) \cup Permutations(Blocks)
=============================================================================
