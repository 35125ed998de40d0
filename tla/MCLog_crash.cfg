CONSTANTS
  Procs = {p1, p2}
  Blocks = {b1, b2, b3, b4, b5}
  Vals = {0, 1}
  NoVal = NoVal
  NoBlock = NoBlock
  MAXOPBLOCKS = 2
  LOGSIZE = 5
  NLOG = 5
  OpBlocks = 1
SPECIFICATION Spec
SYMMETRY Symmetry
INVARIANT LogInv
INVARIANT QuiescentDurable
INVARIANT NoPanic
INVARIANT NoLostWakeup
PROPERTY Refinement
