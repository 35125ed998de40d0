CONSTANTS
  p1 = p1
  p2 = p2
  Procs = {p1, p2}
  NoProc = NoProc
  Byte = {0}
  PIPESIZE = 1
  Wrap = 2
  MaxN = 2
  NBUF = 2
  NBLOCKS = 2
  Written = {1}
  MaxPinned = 1
  Faulty = {1}
  SLOTS = 2
  MaxSends = 3
SPECIFICATION MSpec
INVARIANT WithinRing
CHECK_DEADLOCK FALSE
