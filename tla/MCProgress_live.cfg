CONSTANTS
  Procs = {1, 2, 3}
  NPROC = 3
  CPUs = {c1, c2}
  MaxPid = 3
  Blocks = {b1, b2}
  Vals = {0}
  NoVal = NoVal
  NoBlock = NoBlock
  NoProc = NoProc
  MAXOPBLOCKS = 2
  LOGSIZE = 4
  NLOG = 4
  OpBlocks = 1
SPECIFICATION PSpec
INVARIANT MutualExclusion
INVARIANT NoMissedWakeup
PROPERTY LogProgress
PROPERTY KilledExits
PROPERTY OrphansReaped
PROPERTY WaitersServed
