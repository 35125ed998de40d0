------------------------------- MODULE MCProc -------------------------------
EXTENDS Proc, TLC

CPUSymmetry == Permutations(CPUs)
=============================================================================
