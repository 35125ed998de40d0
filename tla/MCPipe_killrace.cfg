CONSTANTS
  Procs = {p1, p2}
  NoProc = NoProc
  Byte = {0}
  PIPESIZE = 2
  Wrap = 4
  MaxN = 2
SPECIFICATION PFairSpec
PROPERTY KilledLeaves
CHECK_DEADLOCK FALSE
