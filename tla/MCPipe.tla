------------------------------- MODULE MCPipe -------------------------------
EXTENDS Pipe, TLC

ProcSymmetry == Permutations(Procs)
=============================================================================
