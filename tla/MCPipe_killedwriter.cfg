CONSTANTS
  Procs = {p1, p2, p3}
  NoProc = NoProc
  Byte = {0}
  PIPESIZE = 2
  Wrap = 4
  MaxN = 3
SPECIFICATION PSpec
INVARIANT ReadersWaitOnEmpty
CHECK_DEADLOCK FALSE
